---- MODULE Spec2Model ----
(***************************************************************************)
(* Front end of the SysY compiler: the interned type pool (types.rs), the  *)
(* scoped symbol table, compile-time values, expression coercion and the   *)
(* constant folder, the type_check pass (ast.rs), and the lowering pass    *)
(* to IR (irgen.rs).                                                       *)
(*                                                                         *)
(* Five specifications share the module:                                   *)
(*   SpecType  sequences of Type::void/bool/int/func calls on the pool     *)
(*   SpecSym   sequences of SymbolTable operations                         *)
(*   SpecFold  Expr::try_fold and Expr::coercion applied to one expression *)
(*   SpecCheck Expr::type_check / Stmt::type_check of one node             *)
(*   SpecUnit  CompUnit::type_check, then CompUnit::irgen, of one unit     *)
(***************************************************************************)
EXTENDS Integers, Sequences, FiniteSets, TLC

VARIABLES
    POOL,            \* types.rs: thread-local HashMap<TypeKind, Type>
    heap,            \* the Rc<TypeKind> allocations; a Type is an index here
    made,            \* every (kind, handle) pair a Type::make call returned
    reused,          \* the pairs returned by calls that allocated nothing
    stack,           \* SymbolTable.stack: Vec<HashMap<String, SymbolEntry>>
    symPanic,        \* a SymbolTable call panicked (unwrap on None)
    lastOp,          \* the last SymbolTable call, with what stack.pop() gave
    upperTrack,      \* the last insert_upper(name, entry, 1) and pops since
    expr,            \* the expression handed to try_fold / coercion
    overflow_checks, \* build profile: i32 overflow panics (TRUE) or wraps
    fpc,             \* position of the fold/coercion driver
    folded,          \* outcome of expr.try_fold(symtable)
    cto,             \* target type of Expr::coercion
    coerced,         \* Expr::coercion(expr, cto)
    coercedTwice,    \* Expr::coercion(coerced, cto)
    cnode,           \* the expression or statement handed to type_check
    cexpect,         \* the `expect` argument of Expr::type_check
    curr_ret_ty,     \* SymbolTable.curr_ret_ty
    checked,         \* outcome of type_check
    cpc,             \* position of the type_check driver
    unit,            \* CompUnit.items as parsed
    upc,             \* the pass the compiler is in
    todo,            \* what the running pass has still to visit
    built,           \* type_check: the new_items of every open block
    analysed,        \* CompUnit.items after type_check
    ctx,             \* IrGenContext.ctx: the IR built so far
    curr_func,       \* IrGenContext.curr_func
    curr_func_name,  \* IrGenContext.curr_func_name
    curr_block,      \* IrGenContext.curr_block
    curr_ret_slot,   \* IrGenContext.curr_ret_slot
    curr_ret_block   \* IrGenContext.curr_ret_block

typeVars == <<POOL, heap, made, reused>>
symVars == <<stack, symPanic, lastOp, upperTrack>>
foldVars == <<expr, overflow_checks, fpc, folded, cto, coerced, coercedTwice>>
checkVars == <<cnode, cexpect, curr_ret_ty, checked, cpc>>
irVars == <<ctx, curr_func, curr_func_name, curr_block, curr_ret_slot, curr_ret_block>>
unitVars == <<unit, upc, todo, built, analysed, irVars>>
\* what the two passes over a unit leave alone
unitRest == <<POOL, heap, made, reused, symPanic, lastOp, upperTrack,
              expr, overflow_checks, fpc, folded, cto, coerced, coercedTwice,
              cnode, cexpect, checked, cpc>>
vars == <<POOL, heap, made, reused, stack, symPanic, lastOp, upperTrack,
          expr, overflow_checks, fpc, folded, cto, coerced, coercedTwice,
          cnode, cexpect, curr_ret_ty, checked, cpc,
          unit, upc, todo, built, analysed,
          ctx, curr_func, curr_func_name, curr_block, curr_ret_slot, curr_ret_block>>

(***************************************************************************)
(* Bounds                                                                  *)
(***************************************************************************)
MaxTypes == 3

MaxParams == 1

(***************************************************************************)
(* types.rs                                                                *)
(***************************************************************************)
Tk_Void == [k |-> "Void"]

Tk_Bool == [k |-> "Bool"]

Tk_Int == [k |-> "Int"]

Tk_Func(params, ret) == [k |-> "Func", params |-> params, ret |-> ret]

Handles == 1..Len(heap)

\* The structure a handle stands for, with every nested handle expanded.
RECURSIVE Shape(_)
KindShape(kind) ==
    IF kind.k = "Func"
    THEN [k |-> "Func",
          params |-> [i \in DOMAIN kind.params |-> Shape(kind.params[i])],
          ret |-> Shape(kind.ret)]
    ELSE kind

Shape(ty) == KindShape(heap[ty])

\* Type::make with the pool lookup always missing.
make_always_new(pool, hp, kind) ==
    LET ty == Len(hp) + 1
    IN  [POOL |-> {p \in pool : p.kind # kind} \cup {[kind |-> kind, ty |-> ty]},
         heap |-> Append(hp, kind),
         ty |-> ty]

\* Type::make: the pooled handle when the kind is a key of the pool (keys
\* compare nested Types by pointer), else a new Rc inserted under the kind.
make(pool, hp, kind) ==
    IF \E p \in pool : p.kind = kind
    THEN [POOL |-> pool,
          heap |-> hp,
          ty |-> (CHOOSE p \in pool : p.kind = kind).ty]
    ELSE LET ty == Len(hp) + 1
         IN  [POOL |-> {p \in pool : p.kind # kind} \cup {[kind |-> kind, ty |-> ty]},
              heap |-> Append(hp, kind),
              ty |-> ty]

\* One call of Type::make as seen by its caller.
MakeCall(kind) ==
    LET r == make(POOL, heap, kind)
    IN  /\ Len(r.heap) <= MaxTypes
        /\ POOL' = r.POOL
        /\ heap' = r.heap
        /\ made' = made \cup {[kind |-> kind, ty |-> r.ty]}
        /\ reused' = IF r.heap = heap
                      THEN reused \cup {[kind |-> kind, ty |-> r.ty]}
                      ELSE reused
        /\ UNCHANGED <<symVars, foldVars, checkVars, unitVars>>

void == MakeCall(Tk_Void)

bool == MakeCall(Tk_Bool)

int == MakeCall(Tk_Int)

func ==
    \E n \in 0..MaxParams :
        \E params \in [1..n -> Handles] :
            \E ret \in Handles :
                MakeCall(Tk_Func(params, ret))

TypeInit ==
    /\ POOL = {}
    /\ heap = <<>>
    /\ made = {}
    /\ reused = {}

(***************************************************************************)
(* ast.rs: SymbolEntry and SymbolTable                                     *)
(***************************************************************************)
MaxDepth == 3

MaxUpper == 2

Names == {"a", "b"}

\* Option::None
None == [k |-> "None"]

\* Option::Some
Some(v) == [k |-> "Some", v |-> v]

\* a panic!, a failed unwrap/expect or an unreachable!
Panic == [k |-> "Panic"]

\* SymbolEntry::from_ty
from_ty(ty) == [ty |-> ty, comptime |-> None, ir_value |-> None]

SymEntries == {from_ty(Tk_Int), from_ty(Tk_Bool)}

\* HashMap::default()
EmptyScope == [n \in {} |-> None]

\* HashMap::insert: add the key or overwrite its entry
put(scope, name, entry) ==
    [n \in DOMAIN scope \cup {name} |-> IF n = name THEN entry ELSE scope[n]]

Max(S) == CHOOSE x \in S : \A y \in S : y <= x

\* SymbolTable::enter_scope
enter_scope(stk) == Append(stk, EmptyScope)

\* SymbolTable::leave_scope dropping two scopes
leave_scope_twice(stk) ==
    IF Len(stk) <= 1 THEN <<>> ELSE SubSeq(stk, 1, Len(stk) - 2)

\* SymbolTable::leave_scope: Vec::pop, which does nothing on an empty Vec
leave_scope(stk) ==
    IF Len(stk) = 0 THEN stk ELSE SubSeq(stk, 1, Len(stk) - 1)

\* SymbolTable::insert: the new stack; last_mut().unwrap() panics on an
\* empty stack
insert(stk, name, entry) ==
    IF Len(stk) = 0
    THEN Panic
    ELSE Some([stk EXCEPT ![Len(stk)] = put(@, name, entry)])

\* SymbolTable::insert_upper ignoring `upper`
insert_upper_innermost(stk, name, entry, upper) ==
    IF upper >= Len(stk)
    THEN Panic
    ELSE Some([stk EXCEPT ![Len(stk)] = put(@, name, entry)])

\* SymbolTable::insert_upper: iter_mut().rev().nth(upper).unwrap()
insert_upper(stk, name, entry, upper) ==
    IF upper >= Len(stk)
    THEN Panic
    ELSE Some([stk EXCEPT ![Len(stk) - upper] = put(@, name, entry)])

\* SymbolTable::lookup searching from the outermost scope
RECURSIVE lookup_outermost_from(_, _, _)
lookup_outermost_from(stk, i, name) ==
    IF i > Len(stk)
    THEN None
    ELSE IF name \in DOMAIN stk[i]
         THEN stk[i][name]
         ELSE lookup_outermost_from(stk, i + 1, name)

lookup_outermost(stk, name) == lookup_outermost_from(stk, 1, name)

\* the loop of lookup / lookup_mut: stack.iter().rev(), first scope that has
\* the name
RECURSIVE lookup_from(_, _, _)
lookup_from(stk, i, name) ==
    IF i = 0
    THEN None
    ELSE IF name \in DOMAIN stk[i]
         THEN stk[i][name]
         ELSE lookup_from(stk, i - 1, name)

\* SymbolTable::lookup
lookup(stk, name) == lookup_from(stk, Len(stk), name)

\* SymbolTable::lookup_mut
lookup_mut(stk, name) == lookup_from(stk, Len(stk), name)

Op(op) == [op |-> op, popped |-> <<>>]

\* a call of SymbolTable::enter_scope
EnterScope ==
    /\ ~symPanic
    /\ Len(stack) < MaxDepth
    /\ stack' = enter_scope(stack)
    /\ lastOp' = Op("enter_scope")
    /\ upperTrack' = <<>>
    /\ UNCHANGED <<symPanic, typeVars, foldVars, checkVars, unitVars>>

\* a call of SymbolTable::leave_scope
LeaveScope ==
    /\ ~symPanic
    /\ stack' = leave_scope(stack)
    /\ lastOp' = [op |-> "leave_scope",
                  popped |-> IF Len(stack) = 0 THEN <<>> ELSE <<stack[Len(stack)]>>]
    /\ upperTrack' = IF upperTrack # <<>> /\ upperTrack[1].pops < 2 /\ Len(stack) > 0
                     THEN <<[upperTrack[1] EXCEPT !.pops = @ + 1]>>
                     ELSE <<>>
    /\ UNCHANGED <<symPanic, typeVars, foldVars, checkVars, unitVars>>

\* a call of SymbolTable::insert
Insert ==
    /\ ~symPanic
    /\ \E name \in Names, entry \in SymEntries :
        LET r == insert(stack, name, entry)
        IN  /\ symPanic' = (r = Panic)
            /\ stack' = IF r = Panic THEN stack ELSE r.v
    /\ lastOp' = Op("insert")
    /\ upperTrack' = <<>>
    /\ UNCHANGED <<typeVars, foldVars, checkVars, unitVars>>

\* a call of SymbolTable::insert_upper
InsertUpper ==
    /\ ~symPanic
    /\ \E name \in Names, entry \in SymEntries, upper \in 0..MaxUpper :
        LET r == insert_upper(stack, name, entry, upper)
        IN  /\ symPanic' = (r = Panic)
            /\ stack' = IF r = Panic THEN stack ELSE r.v
            /\ upperTrack' = IF upper = 1 /\ r # Panic
                             THEN <<[name |-> name, entry |-> entry,
                                     pops |-> 0, depth |-> Len(stack)]>>
                             ELSE <<>>
    /\ lastOp' = Op("insert_upper")
    /\ UNCHANGED <<typeVars, foldVars, checkVars, unitVars>>

\* SymbolTable::default()
SymInit ==
    /\ stack = <<>>
    /\ symPanic = FALSE
    /\ lastOp = Op("default")
    /\ upperTrack = <<>>

(***************************************************************************)
(* ast.rs: i32 arithmetic as the build compiles it                         *)
(***************************************************************************)
IntBits == 4

I32_MIN == -(2 ^ (IntBits - 1))

I32_MAX == 2 ^ (IntBits - 1) - 1

I32 == I32_MIN..I32_MAX

\* two's complement wrap-around of a mathematical integer
wrap(x) == ((x - I32_MIN) % (2 ^ IntBits)) + I32_MIN

Abs(x) == IF x < 0 THEN -x ELSE x

\* the outcome of an i32 operation: a value, or a panic
I32Ok(i) == [p |-> FALSE, i |-> i]

I32Panic == [p |-> TRUE, i |-> 0]

\* `+`, `-`, `*` and unary `-` on i32: an overflow panics when the build
\* has overflow checks (debug profile) and wraps when it has not (release)
overflowing(x) ==
    IF x \in I32 THEN I32Ok(x)
    ELSE IF overflow_checks THEN I32Panic ELSE I32Ok(wrap(x))

i32_add(a, b) == overflowing(a + b)

i32_sub(a, b) == overflowing(a - b)

i32_mul(a, b) == overflowing(a * b)

i32_neg(a) == overflowing(0 - a)

\* quotient rounded toward zero
tdiv(a, b) ==
    IF (a >= 0) = (b > 0) THEN Abs(a) \div Abs(b) ELSE 0 - (Abs(a) \div Abs(b))

\* `/` on i32: panics on a zero divisor and on MIN / -1 in every build
i32_div(a, b) ==
    IF b = 0 \/ (a = I32_MIN /\ b = -1) THEN I32Panic ELSE I32Ok(tdiv(a, b))

\* `%` on i32: panics on a zero divisor and on MIN % -1 in every build
i32_rem(a, b) ==
    IF b = 0 \/ (a = I32_MIN /\ b = -1) THEN I32Panic ELSE I32Ok(a - b * tdiv(a, b))

\* `b as i32`
as_i32(b) == IF b THEN 1 ELSE 0

(***************************************************************************)
(* ast.rs: ComptimeVal                                                     *)
(***************************************************************************)
Cv_Bool(b) == [tag |-> "Bool", b |-> b]

Cv_Int(i) == [tag |-> "Int", i |-> i]

Cv_Undef(ty) == [tag |-> "Undef", ty |-> ty]

\* ComptimeVal::get_type
get_type(val) ==
    CASE val.tag = "Bool" -> Tk_Bool
      [] val.tag = "Int" -> Tk_Int
      [] val.tag = "Undef" -> val.ty

\* ComptimeVal::unwrap_int
unwrap_int(val) ==
    CASE val.tag = "Bool" -> I32Ok(as_i32(val.b))
      [] val.tag = "Int" -> I32Ok(val.i)
      [] val.tag = "Undef" -> I32Panic

\* ComptimeVal::is_zero
is_zero(val) ==
    CASE val.tag = "Bool" -> ~val.b
      [] val.tag = "Int" -> val.i = 0
      [] val.tag = "Undef" -> FALSE

\* wraps the i32 outcome of an operator arm in Cv::Int
CvIntOf(r) == IF r.p THEN Panic ELSE Some(Cv_Int(r.i))

\* ComptimeVal::logical_or
logical_or(lhs, rhs) ==
    IF lhs.tag = "Undef" \/ rhs.tag = "Undef"
    THEN Panic
    ELSE LET l == IF lhs.tag = "Bool" THEN lhs.b ELSE lhs.i # 0
             r == IF rhs.tag = "Bool" THEN rhs.b ELSE rhs.i # 0
         IN  Some(Cv_Bool(l \/ r))

\* ComptimeVal::logical_and
logical_and(lhs, rhs) ==
    IF lhs.tag = "Undef" \/ rhs.tag = "Undef"
    THEN Panic
    ELSE LET l == IF lhs.tag = "Bool" THEN lhs.b ELSE lhs.i # 0
             r == IF rhs.tag = "Bool" THEN rhs.b ELSE rhs.i # 0
         IN  Some(Cv_Bool(l /\ r))

\* impl PartialEq for ComptimeVal
eq(lhs, rhs) ==
    CASE lhs.tag = "Bool" /\ rhs.tag = "Bool" -> lhs.b = rhs.b
      [] lhs.tag = "Int" /\ rhs.tag = "Int" -> lhs.i = rhs.i
      [] lhs.tag = "Bool" /\ rhs.tag = "Int" -> as_i32(lhs.b) = rhs.i
      [] lhs.tag = "Int" /\ rhs.tag = "Bool" -> lhs.i = as_i32(rhs.b)
      [] OTHER -> FALSE

\* Ord::cmp on two i32
cmp(a, b) == IF a < b THEN "Less" ELSE IF a = b THEN "Equal" ELSE "Greater"

\* impl PartialOrd for ComptimeVal; "Unordered" is Option::None
partial_cmp(lhs, rhs) ==
    CASE lhs.tag = "Bool" /\ rhs.tag = "Bool" -> cmp(as_i32(lhs.b), as_i32(rhs.b))
      [] lhs.tag = "Int" /\ rhs.tag = "Int" -> cmp(lhs.i, rhs.i)
      [] lhs.tag = "Bool" /\ rhs.tag = "Int" -> cmp(as_i32(lhs.b), rhs.i)
      [] lhs.tag = "Int" /\ rhs.tag = "Bool" -> cmp(lhs.i, as_i32(rhs.b))
      [] OTHER -> "Unordered"

\* the operators `<`, `>`, `<=`, `>=`, `!=` that PartialOrd and PartialEq give
lt(lhs, rhs) == partial_cmp(lhs, rhs) = "Less"

gt(lhs, rhs) == partial_cmp(lhs, rhs) = "Greater"

le(lhs, rhs) == partial_cmp(lhs, rhs) \in {"Less", "Equal"}

ge(lhs, rhs) == partial_cmp(lhs, rhs) \in {"Greater", "Equal"}

ne(lhs, rhs) == ~eq(lhs, rhs)

\* impl Neg with an undefined operand read as zero
neg_undef_zero(val) ==
    CASE val.tag = "Bool" -> CvIntOf(i32_neg(as_i32(val.b)))
      [] val.tag = "Int" -> CvIntOf(i32_neg(val.i))
      [] val.tag = "Undef" -> Some(Cv_Int(0))

\* impl Neg for ComptimeVal
neg(val) ==
    CASE val.tag = "Bool" -> CvIntOf(i32_neg(as_i32(val.b)))
      [] val.tag = "Int" -> CvIntOf(i32_neg(val.i))
      [] val.tag = "Undef" -> Panic

\* impl Not for ComptimeVal
not(val) ==
    CASE val.tag = "Bool" -> Some(Cv_Bool(~val.b))
      [] val.tag = "Int" -> Some(Cv_Bool(val.i # 0))
      [] val.tag = "Undef" -> Panic

\* impl Add with the Bool + Bool arm staying in Bool
add_bool_arm(lhs, rhs) ==
    CASE lhs.tag = "Int" /\ rhs.tag = "Int" -> CvIntOf(i32_add(lhs.i, rhs.i))
      [] lhs.tag = "Bool" /\ rhs.tag = "Int" -> CvIntOf(i32_add(as_i32(lhs.b), rhs.i))
      [] lhs.tag = "Int" /\ rhs.tag = "Bool" -> CvIntOf(i32_add(lhs.i, as_i32(rhs.b)))
      [] lhs.tag = "Bool" /\ rhs.tag = "Bool" -> Some(Cv_Bool(lhs.b \/ rhs.b))
      [] OTHER -> Panic

\* impl Add for ComptimeVal
add(lhs, rhs) ==
    CASE lhs.tag = "Int" /\ rhs.tag = "Int" -> CvIntOf(i32_add(lhs.i, rhs.i))
      [] lhs.tag = "Bool" /\ rhs.tag = "Int" -> CvIntOf(i32_add(as_i32(lhs.b), rhs.i))
      [] lhs.tag = "Int" /\ rhs.tag = "Bool" -> CvIntOf(i32_add(lhs.i, as_i32(rhs.b)))
      [] lhs.tag = "Bool" /\ rhs.tag = "Bool" -> CvIntOf(i32_add(as_i32(lhs.b), as_i32(rhs.b)))
      [] OTHER -> Panic

\* impl Sub for ComptimeVal
sub(lhs, rhs) ==
    CASE lhs.tag = "Int" /\ rhs.tag = "Int" -> CvIntOf(i32_sub(lhs.i, rhs.i))
      [] lhs.tag = "Bool" /\ rhs.tag = "Int" -> CvIntOf(i32_sub(as_i32(lhs.b), rhs.i))
      [] lhs.tag = "Int" /\ rhs.tag = "Bool" -> CvIntOf(i32_sub(lhs.i, as_i32(rhs.b)))
      [] lhs.tag = "Bool" /\ rhs.tag = "Bool" -> CvIntOf(i32_sub(as_i32(lhs.b), as_i32(rhs.b)))
      [] OTHER -> Panic

\* impl Mul for ComptimeVal
mul(lhs, rhs) ==
    CASE lhs.tag = "Int" /\ rhs.tag = "Int" -> CvIntOf(i32_mul(lhs.i, rhs.i))
      [] lhs.tag = "Bool" /\ rhs.tag = "Int" -> CvIntOf(i32_mul(as_i32(lhs.b), rhs.i))
      [] lhs.tag = "Int" /\ rhs.tag = "Bool" -> CvIntOf(i32_mul(lhs.i, as_i32(rhs.b)))
      [] lhs.tag = "Bool" /\ rhs.tag = "Bool" -> CvIntOf(i32_mul(as_i32(lhs.b), as_i32(rhs.b)))
      [] OTHER -> Panic

\* impl Div rounding the quotient down instead of toward zero
div_floor(lhs, rhs) ==
    IF lhs.tag = "Int" /\ rhs.tag = "Int" /\ rhs.i # 0
       /\ ~(lhs.i = I32_MIN /\ rhs.i = -1)
    THEN Some(Cv_Int(lhs.i \div rhs.i))
    ELSE Panic

\* impl Div for ComptimeVal
div(lhs, rhs) ==
    CASE lhs.tag = "Int" /\ rhs.tag = "Int" -> CvIntOf(i32_div(lhs.i, rhs.i))
      [] lhs.tag = "Bool" /\ rhs.tag = "Int" -> CvIntOf(i32_div(as_i32(lhs.b), rhs.i))
      [] lhs.tag = "Int" /\ rhs.tag = "Bool" -> CvIntOf(i32_div(lhs.i, as_i32(rhs.b)))
      [] lhs.tag = "Bool" /\ rhs.tag = "Bool" -> CvIntOf(i32_div(as_i32(lhs.b), as_i32(rhs.b)))
      [] OTHER -> Panic

\* impl Rem for ComptimeVal
rem(lhs, rhs) ==
    CASE lhs.tag = "Int" /\ rhs.tag = "Int" -> CvIntOf(i32_rem(lhs.i, rhs.i))
      [] lhs.tag = "Bool" /\ rhs.tag = "Bool" -> CvIntOf(i32_rem(as_i32(lhs.b), as_i32(rhs.b)))
      [] lhs.tag = "Bool" /\ rhs.tag = "Int" -> CvIntOf(i32_rem(as_i32(lhs.b), rhs.i))
      [] lhs.tag = "Int" /\ rhs.tag = "Bool" -> CvIntOf(i32_rem(lhs.i, as_i32(rhs.b)))
      [] OTHER -> Panic

(***************************************************************************)
(* ast.rs: Expr.  A resolved Type is written as its structure; interning   *)
(* makes identity and structure agree.                                     *)
(***************************************************************************)
ArithOps == {"Add", "Sub", "Mul", "Div", "Mod"}

CmpOps == {"Lt", "Gt", "Le", "Ge", "Eq", "Ne"}

LogicOps == {"And", "Or"}

\* enum BinaryOp
BinaryOp == ArithOps \cup CmpOps \cup LogicOps

\* enum UnaryOp
UnaryOp == {"Neg", "Not"}

\* Expr::const_
const_(val) == [kind |-> "Const", val |-> val, ty |-> Some(get_type(val))]

\* Expr::binary
binary(op, lhs, rhs) ==
    [kind |-> "Binary", op |-> op, lhs |-> lhs, rhs |-> rhs, ty |-> None]

\* Expr::unary
unary(op, e) == [kind |-> "Unary", op |-> op, e |-> e, ty |-> None]

\* Expr::func_call
func_call(ident, args) ==
    [kind |-> "FuncCall", ident |-> ident, args |-> args, ty |-> None]

\* Expr::lval
lval(ident) == [kind |-> "LVal", ident |-> ident, ty |-> None]

\* Expr::coercion wrapping whatever the type of the expression
coercion_always_wrap(e, to) == [kind |-> "Coercion", e |-> e, ty |-> Some(to)]

\* Expr::coercion
coercion(e, to) ==
    IF e.ty # None /\ e.ty.v = to
    THEN e
    ELSE [kind |-> "Coercion", e |-> e, ty |-> Some(to)]

\* Expr::try_fold, Binary arm, once both operands folded
fold_binary(op, lhs, rhs) ==
    CASE op = "Add" -> add(lhs, rhs)
      [] op = "Sub" -> sub(lhs, rhs)
      [] op = "Mul" -> mul(lhs, rhs)
      [] op = "Div" -> div(lhs, rhs)
      [] op = "Mod" -> rem(lhs, rhs)
      [] op = "Lt" -> Some(Cv_Bool(lt(lhs, rhs)))
      [] op = "Gt" -> Some(Cv_Bool(gt(lhs, rhs)))
      [] op = "Le" -> Some(Cv_Bool(le(lhs, rhs)))
      [] op = "Ge" -> Some(Cv_Bool(ge(lhs, rhs)))
      [] op = "Eq" -> Some(Cv_Bool(eq(lhs, rhs)))
      [] op = "Ne" -> Some(Cv_Bool(ne(lhs, rhs)))
      [] op = "And" -> logical_and(lhs, rhs)
      [] op = "Or" -> logical_or(lhs, rhs)

\* Expr::try_fold, Coercion arm, once the inner expression folded
fold_coercion(ty, val) ==
    IF ty = None
    THEN Panic
    ELSE CASE ty.v = Tk_Bool ->
                (CASE val.tag = "Bool" -> Some(Cv_Bool(val.b))
                   [] val.tag = "Int" -> Some(Cv_Bool(val.i # 0))
                   [] val.tag = "Undef" -> Panic)
           [] ty.v = Tk_Int ->
                (CASE val.tag = "Bool" -> Some(Cv_Int(as_i32(val.b)))
                   [] val.tag = "Int" -> Some(Cv_Int(val.i))
                   [] val.tag = "Undef" -> Panic)
           [] OTHER -> Panic

\* Expr::try_fold: Some(value), None, or a panic.  `?` returns None as soon
\* as an operand does not fold, before the next operand is looked at.
RECURSIVE try_fold(_, _)
try_fold(e, symtable) ==
    CASE e.kind = "Const" -> Some(e.val)
      [] e.kind = "Binary" ->
            LET lhs == try_fold(e.lhs, symtable)
            IN  IF lhs.k # "Some" THEN lhs
                ELSE LET rhs == try_fold(e.rhs, symtable)
                     IN  IF rhs.k # "Some" THEN rhs
                         ELSE fold_binary(e.op, lhs.v, rhs.v)
      [] e.kind = "Unary" ->
            LET val == try_fold(e.e, symtable)
            IN  IF val.k # "Some" THEN val
                ELSE IF e.op = "Neg" THEN neg(val.v) ELSE not(val.v)
      [] e.kind = "FuncCall" -> None
      [] e.kind = "LVal" ->
            LET entry == lookup(symtable, e.ident)
            IN  IF entry = None THEN Panic ELSE entry.comptime
      [] e.kind = "Coercion" ->
            LET val == try_fold(e.e, symtable)
            IN  IF val.k # "Some" THEN val ELSE fold_coercion(e.ty, val.v)

(***************************************************************************)
(* ast.rs: Expr::type_check                                                *)
(***************************************************************************)
\* Type::is_int
is_int(ty) == ty = Tk_Int

\* Type::is_bool
is_bool(ty) == ty = Tk_Bool

\* Type::is_void
is_void(ty) == ty = Tk_Void

\* Expr::type_check, Binary arm, coercing the Int operand to Bool
type_check_binary_to_bool(op, lhs0, rhs0) ==
    LET lhs_ty == lhs0.ty.v
        rhs_ty == rhs0.ty.v
        lhs == IF is_int(lhs_ty) /\ is_bool(rhs_ty) THEN coercion(lhs0, Tk_Bool) ELSE lhs0
        rhs == IF is_bool(lhs_ty) /\ is_int(rhs_ty) THEN coercion(rhs0, Tk_Bool) ELSE rhs0
    IN  IF lhs0.ty = None \/ rhs0.ty = None
        THEN Panic
        ELSE IF /\ ~(is_bool(lhs_ty) /\ is_int(rhs_ty))
                /\ ~(is_int(lhs_ty) /\ is_bool(rhs_ty))
                /\ lhs_ty # rhs_ty
             THEN Panic
             ELSE Some([binary(op, lhs, rhs) EXCEPT !.ty = Some(lhs.ty.v)])

\* Expr::type_check, Binary arm, once both operands are analysed: the
\* Bool/Int pair widens its Bool side, any other pair must be of one type,
\* and the node takes the type of its left operand for every operator.
type_check_binary(op, lhs0, rhs0) ==
    LET lhs_ty == lhs0.ty.v
        rhs_ty == rhs0.ty.v
        lhs == IF is_bool(lhs_ty) /\ is_int(rhs_ty) THEN coercion(lhs0, Tk_Int) ELSE lhs0
        rhs == IF is_int(lhs_ty) /\ is_bool(rhs_ty) THEN coercion(rhs0, Tk_Int) ELSE rhs0
    IN  IF lhs0.ty = None \/ rhs0.ty = None
        THEN Panic
        ELSE IF /\ ~(is_bool(lhs_ty) /\ is_int(rhs_ty))
                /\ ~(is_int(lhs_ty) /\ is_bool(rhs_ty))
                /\ lhs_ty # rhs_ty
             THEN Panic
             ELSE Some([binary(op, lhs, rhs) EXCEPT !.ty = Some(lhs.ty.v)])

\* Expr::type_check, Unary arm, once the operand is analysed
type_check_unary(op, e0) ==
    IF e0.ty = None
    THEN Panic
    ELSE IF op = "Neg"
         THEN LET e == IF is_bool(e0.ty.v) THEN coercion(e0, Tk_Int) ELSE e0
              IN  IF is_int(e.ty.v)
                  THEN Some([unary(op, e) EXCEPT !.ty = Some(e.ty.v)])
                  ELSE Panic
         ELSE IF is_bool(e0.ty.v) \/ is_int(e0.ty.v)
              THEN Some([unary(op, e0) EXCEPT !.ty = Some(Tk_Bool)])
              ELSE Panic

\* Expr::type_check, LVal arm: symtable.lookup(&ident).unwrap()
type_check_lval(ident, symtable) ==
    LET entry == lookup(symtable, ident)
    IN  IF entry = None
        THEN Panic
        ELSE Some([lval(ident) EXCEPT !.ty = Some(entry.ty)])

\* Expr::type_check, the coercion to the expected type after the match
expect_coerce(e, expect) ==
    IF expect = None
    THEN Some(e)
    ELSE IF is_int(expect.v) \/ is_bool(expect.v)
         THEN Some([coercion(e, expect.v) EXCEPT !.ty = expect])
         ELSE IF e.ty = None THEN Panic
              ELSE IF expect.v # e.ty.v THEN Panic ELSE Some(e)

\* Expr::type_check ending without the fold
fold_checked_never(e, symtable) == Some(e)

\* Expr::type_check, the fold that ends it: a value replaces the node
fold_checked(e, symtable) ==
    LET comptime == try_fold(e, symtable)
    IN  CASE comptime = Panic -> Panic
          [] comptime = None -> Some(e)
          [] OTHER -> Some(const_(comptime.v))

Min(a, b) == IF a <= b THEN a ELSE b

\* Expr::type_check: Some(typed expression) or a panic.  The arguments of a
\* call are zipped with the parameter types, so analysis stops at the
\* shorter of the two.
RECURSIVE type_check(_, _, _)
RECURSIVE type_check_args(_, _, _, _)
type_check_args(args, param_tys, i, symtable) ==
    IF i > Min(Len(args), Len(param_tys))
    THEN Some(<<>>)
    ELSE LET arg == type_check(args[i], Some(param_tys[i]), symtable)
         IN  IF arg = Panic THEN Panic
             ELSE LET rest == type_check_args(args, param_tys, i + 1, symtable)
                  IN  IF rest = Panic THEN Panic
                      ELSE Some(<<arg.v>> \o rest.v)

type_check_kind(e, symtable) ==
    CASE e.kind = "Const" -> Some(e)
      [] e.kind = "Binary" ->
            LET lhs == type_check(e.lhs, None, symtable)
            IN  IF lhs = Panic THEN Panic
                ELSE LET rhs == type_check(e.rhs, None, symtable)
                     IN  IF rhs = Panic THEN Panic
                         ELSE type_check_binary(e.op, lhs.v, rhs.v)
      [] e.kind = "Coercion" -> Panic
      [] e.kind = "FuncCall" ->
            LET entry == lookup(symtable, e.ident)
            IN  IF entry = None THEN Panic
                ELSE IF entry.ty.k # "Func" THEN Panic
                ELSE LET args == type_check_args(e.args, entry.ty.params, 1, symtable)
                     IN  IF args = Panic THEN Panic
                         ELSE Some([func_call(e.ident, args.v)
                                        EXCEPT !.ty = Some(entry.ty.ret)])
      [] e.kind = "LVal" -> type_check_lval(e.ident, symtable)
      [] e.kind = "Unary" ->
            LET operand == type_check(e.e, None, symtable)
            IN  IF operand = Panic THEN Panic
                ELSE type_check_unary(e.op, operand.v)

type_check(e, expect, symtable) ==
    IF e.ty # None /\ expect = None
    THEN Some(e)
    ELSE LET matched == type_check_kind(e, symtable)
         IN  IF matched = Panic THEN Panic
             ELSE LET expected == expect_coerce(matched.v, expect)
                  IN  IF expected = Panic THEN Panic
                      ELSE fold_checked(expected.v, symtable)

(***************************************************************************)
(* ast.rs: type_check of declarations and statements.  Each takes the      *)
(* scope stack and gives the rewritten node with the scope stack it        *)
(* leaves, or a panic.                                                     *)
(***************************************************************************)
Checked(v, stk) == [k |-> "Some", v |-> v, stack |-> stk]

\* ConstDef / VarDef
Def(ident, init) == [ident |-> ident, init |-> init]

\* Decl::ConstDecl
const_decl(ty, defs) == [kind |-> "ConstDecl", ty |-> ty, defs |-> defs]

\* Decl::VarDecl
var_decl(ty, defs) == [kind |-> "VarDecl", ty |-> ty, defs |-> defs]

\* Stmt::Assign
assign(ident, e) == [kind |-> "Assign", ident |-> ident, expr |-> e]

\* Stmt::Expr
expr_stmt(e) == [kind |-> "ExprStmt", expr |-> e]

\* Stmt::Return
return(e) == [kind |-> "Return", expr |-> e]

\* Stmt::Block
block(items) == [kind |-> "Block", items |-> items]

\* FuncFParam
Param(ty, ident) == [ty |-> ty, ident |-> ident]

\* Item::FuncDef
func_def(ret_ty, ident, params, body) ==
    [kind |-> "FuncDef", ret_ty |-> ret_ty, ident |-> ident, params |-> params,
     body |-> body]

\* new_defs.push(def) once symtable.insert has run
def_inserted(def, st) == IF st = Panic THEN Panic ELSE Checked(def, st.v)

\* ConstDecl::type_check, loop body after the fold, recording no folded
\* value in the symbol entry
const_def_no_comptime(ty, ident, stk, val) ==
    IF val.k # "Some"
    THEN Panic
    ELSE def_inserted(Def(ident, const_(val.v)), insert(stk, ident, from_ty(ty)))

\* ConstDecl::type_check, loop body after the fold: expect("non-constant
\* init"), the initializer replaced by the constant, the entry inserted
const_def_folded(ty, ident, stk, val) ==
    IF val.k # "Some"
    THEN Panic
    ELSE def_inserted(Def(ident, const_(val.v)),
                      insert(stk, ident,
                             [ty |-> ty, comptime |-> Some(val.v), ir_value |-> None]))

\* ConstDecl::type_check, loop body after def.init.type_check
const_def_typed(ty, ident, stk, init) ==
    IF init = Panic
    THEN Panic
    ELSE const_def_folded(ty, ident, stk, try_fold(init.v, stk))

\* ConstDecl::type_check, the body of the loop over the definitions
const_def_check(ty, def, stk) ==
    const_def_typed(ty, def.ident, stk, type_check(def.init, Some(ty), stk))

\* VarDecl::type_check, loop body after the fold, recording the folded
\* value in the symbol entry
var_def_with_comptime(ty, ident, stk, typed_init, val) ==
    CASE val.k = "Panic" -> Panic
      [] val.k = "None" ->
            def_inserted(Def(ident, Some(typed_init)), insert(stk, ident, from_ty(ty)))
      [] OTHER ->
            def_inserted(Def(ident, Some(const_(val.v))),
                         insert(stk, ident,
                                [ty |-> ty, comptime |-> Some(val.v), ir_value |-> None]))

\* VarDecl::type_check, loop body after the fold: the folded constant or
\* the typed initializer, then the entry inserted
var_def_folded(ty, ident, stk, typed_init, val) ==
    CASE val.k = "Panic" -> Panic
      [] val.k = "None" ->
            def_inserted(Def(ident, Some(typed_init)), insert(stk, ident, from_ty(ty)))
      [] OTHER ->
            def_inserted(Def(ident, Some(const_(val.v))), insert(stk, ident, from_ty(ty)))

\* VarDecl::type_check, loop body after init.type_check
var_def_typed(ty, ident, stk, typed_init) ==
    IF typed_init = Panic
    THEN Panic
    ELSE var_def_folded(ty, ident, stk, typed_init.v, try_fold(typed_init.v, stk))

\* VarDecl::type_check, the body of the loop over the definitions: the
\* initializer is analysed before the name is inserted
var_def_check(ty, def, stk) ==
    IF def.init = None
    THEN def_inserted(Def(def.ident, Some(const_(Cv_Undef(ty)))),
                      insert(stk, def.ident, from_ty(ty)))
    ELSE var_def_typed(ty, def.ident, stk, type_check(def.init.v, Some(ty), stk))

\* the loop `for mut def in self.defs.drain(..)` of both declarations
RECURSIVE check_defs(_, _, _, _)
check_defs_next(decl, i, done, r) ==
    IF r = Panic
    THEN Panic
    ELSE check_defs(decl, i + 1, Append(done, r.v), r.stack)

check_defs(decl, i, done, stk) ==
    IF i > Len(decl.defs)
    THEN Checked([decl EXCEPT !.defs = done], stk)
    ELSE check_defs_next(decl, i, done,
                         IF decl.kind = "ConstDecl"
                         THEN const_def_check(decl.ty, decl.defs[i], stk)
                         ELSE var_def_check(decl.ty, decl.defs[i], stk))

\* ConstDecl::type_check
ConstDecl_type_check(decl, stk) == check_defs(decl, 1, <<>>, stk)

\* VarDecl::type_check
VarDecl_type_check(decl, stk) == check_defs(decl, 1, <<>>, stk)

\* Stmt::type_check, Return arm accepting every return type
return_check_any(e, stk, ret_ty) ==
    IF e = None
    THEN Some(return(None))
    ELSE LET typed == type_check(e.v, ret_ty, stk)
         IN  IF typed = Panic THEN Panic
             ELSE IF ret_ty = None THEN Panic
             ELSE Some(return(Some(typed.v)))

\* Stmt::type_check, Return arm
return_check(e, stk, ret_ty) ==
    IF e = None
    THEN Some(return(None))
    ELSE LET typed == type_check(e.v, ret_ty, stk)
         IN  IF typed = Panic THEN Panic
             ELSE IF ret_ty = None THEN Panic
             ELSE IF is_int(ret_ty.v)
                  THEN Some(return(Some(coercion(typed.v, Tk_Int))))
                  ELSE Panic

\* Stmt::type_check, Assign arm, taking an unbound target for an int variable
assign_check_default(ident, e, stk) ==
    LET entry == lookup(stk, ident)
        ty == IF entry = None THEN Tk_Int ELSE entry.ty
        typed == type_check(e, Some(ty), stk)
    IN  IF typed = Panic THEN Panic ELSE Some(assign(ident, typed.v))

\* Stmt::type_check, Assign arm
assign_check(ident, e, stk) ==
    LET entry == lookup(stk, ident)
    IN  IF entry = None THEN Panic
        ELSE LET typed == type_check(e, Some(entry.ty), stk)
             IN  IF typed = Panic THEN Panic
                 ELSE Some(assign(ident, typed.v))

\* Stmt::type_check, Expr arm
expr_stmt_check(e, stk) ==
    IF e = None
    THEN Some(expr_stmt(None))
    ELSE LET typed == type_check(e.v, None, stk)
         IN  IF typed = Panic THEN Panic ELSE Some(expr_stmt(Some(typed.v)))

\* Stmt::type_check of a statement that holds no other statement
Stmt_type_check(stmt, stk, ret_ty) ==
    CASE stmt.kind = "Assign" -> assign_check(stmt.ident, stmt.expr, stk)
      [] stmt.kind = "ExprStmt" -> expr_stmt_check(stmt.expr, stk)
      [] stmt.kind \in {"Break", "Continue"} -> Some(stmt)
      [] stmt.kind = "Return" -> return_check(stmt.expr, stk, ret_ty)

\* Item::type_check, FuncDef arm: the loop over the parameters
RECURSIVE insert_params(_, _, _)
insert_params(params, i, stk) ==
    IF i > Len(params)
    THEN Some(stk)
    ELSE LET st == insert(stk, params[i].ident, from_ty(params[i].ty))
         IN  IF st = Panic THEN Panic ELSE insert_params(params, i + 1, st.v)

\* Type::func(param_tys, ret_ty) of a definition
func_ty_of(item) ==
    Tk_Func([i \in 1..Len(item.params) |-> item.params[i].ty], item.ret_ty)

(***************************************************************************)
(* irgen.rs: the instruction a binary operator is lowered to               *)
(***************************************************************************)
\* IrGenContext::map_int_binary_op
map_int_binary_op(op) ==
    CASE op = "Add" -> [op |-> "Add", cond |-> "-"]
      [] op = "Sub" -> [op |-> "Sub", cond |-> "-"]
      [] op = "Mul" -> [op |-> "Mul", cond |-> "-"]
      [] op = "Div" -> [op |-> "SDiv", cond |-> "-"]
      [] op = "Mod" -> [op |-> "SRem", cond |-> "-"]
      [] op = "Lt" -> [op |-> "ICmp", cond |-> "Slt"]
      [] op = "Gt" -> [op |-> "ICmp", cond |-> "Sgt"]
      [] op = "Le" -> [op |-> "ICmp", cond |-> "Sle"]
      [] op = "Ge" -> [op |-> "ICmp", cond |-> "Sge"]
      [] op = "Eq" -> [op |-> "ICmp", cond |-> "Eq"]
      [] op = "Ne" -> [op |-> "ICmp", cond |-> "Ne"]
      [] op = "And" -> [op |-> "And", cond |-> "-"]
      [] op = "Or" -> [op |-> "Or", cond |-> "-"]

\* bitwise and / or of two unsigned numbers of n bits
RECURSIVE bit_and(_, _, _)
bit_and(a, b, n) ==
    IF n = 0 THEN 0
    ELSE (a % 2) * (b % 2) + 2 * bit_and(a \div 2, b \div 2, n - 1)

RECURSIVE bit_or(_, _, _)
bit_or(a, b, n) ==
    IF n = 0 THEN 0
    ELSE (IF a % 2 = 1 \/ b % 2 = 1 THEN 1 ELSE 0)
         + 2 * bit_or(a \div 2, b \div 2, n - 1)

\* an undefined result of an instruction (division by zero or overflow)
Poison == [k |-> "Poison"]

\* ir::IntBinaryOp executed on two i32 operands: the integer result, 0 or 1
\* for a comparison
ibinary(inst, a, b) ==
    CASE inst.op = "Add" -> Some(wrap(a + b))
      [] inst.op = "Sub" -> Some(wrap(a - b))
      [] inst.op = "Mul" -> Some(wrap(a * b))
      [] inst.op = "SDiv" ->
            IF b = 0 \/ (a = I32_MIN /\ b = -1) THEN Poison ELSE Some(tdiv(a, b))
      [] inst.op = "SRem" ->
            IF b = 0 \/ (a = I32_MIN /\ b = -1) THEN Poison
            ELSE Some(a - b * tdiv(a, b))
      [] inst.op = "And" ->
            Some(wrap(bit_and(a % (2 ^ IntBits), b % (2 ^ IntBits), IntBits)))
      [] inst.op = "Or" ->
            Some(wrap(bit_or(a % (2 ^ IntBits), b % (2 ^ IntBits), IntBits)))
      [] inst.op = "ICmp" ->
            Some(as_i32(CASE inst.cond = "Slt" -> a < b
                          [] inst.cond = "Sgt" -> a > b
                          [] inst.cond = "Sle" -> a <= b
                          [] inst.cond = "Sge" -> a >= b
                          [] inst.cond = "Eq" -> a = b
                          [] inst.cond = "Ne" -> a # b))

(***************************************************************************)
(* The IR store the lowering pass fills (crate::ir): a context of          *)
(* functions, blocks, globals and instructions.  A block is named by its   *)
(* index in cx.blocks, an instruction by its number, a function by its    *)
(* index in cx.funcs.                                                     *)
(***************************************************************************)
\* Context::default
EmptyContext == [funcs |-> <<>>, blocks |-> <<>>, globals |-> <<>>, insts |-> 0]

\* Value::i32 / Value::i1 / Value::undef
Value_const(val) == [v |-> "const", val |-> val]

\* the value of a function parameter
Value_param(f, idx, ty) == [v |-> "param", func |-> f, idx |-> idx, ty |-> ty]

\* Inst::result
result(id) == [v |-> "inst", id |-> id]

\* Value::global_ref
global_ref(name, ty) == [v |-> "global_ref", name |-> name, ty |-> ty]

\* Value::is_param
is_param(val) == val.v = "param"

\* Inst::alloca
Inst_alloca(id, ty) == [op |-> "alloca", id |-> id, ty |-> ty]

\* Inst::store
Inst_store(id, val, ptr) == [op |-> "store", id |-> id, val |-> val, ptr |-> ptr]

\* Inst::load
Inst_load(id, ptr, ty) == [op |-> "load", id |-> id, ptr |-> ptr, ty |-> ty]

\* Inst::ibinary
Inst_ibinary(id, bop, lhs, rhs) ==
    [op |-> "ibinary", id |-> id, bop |-> bop, lhs |-> lhs, rhs |-> rhs]

\* Inst::br
Inst_br(id, target) == [op |-> "br", id |-> id, target |-> target]

\* Inst::ret
Inst_ret(id, val) == [op |-> "ret", id |-> id, val |-> val]

\* the number the next instruction gets
next_inst(cx) == cx.insts + 1

\* Block::new: the block exists in the context, in no function yet
Block_new(cx) == [cx EXCEPT !.blocks = Append(@, <<>>)]

\* Block::push_back of a newly made instruction
push_back(cx, b, inst) ==
    [cx EXCEPT !.blocks[b] = Append(@, inst), !.insts = inst.id]

\* Block::push_front of a newly made instruction
push_front(cx, b, inst) ==
    [cx EXCEPT !.blocks[b] = <<inst>> \o @, !.insts = inst.id]

\* Func::new
Func_new(cx, name, ret_ty) ==
    [cx EXCEPT !.funcs = Append(@, [name |-> name, ret_ty |-> ret_ty,
                                     params |-> <<>>, blocks |-> <<>>])]

\* Func::push_back: the block becomes the last of the function
Func_push_back(cx, f, b) == [cx EXCEPT !.funcs[f].blocks = Append(@, b)]

\* Func::add_param
add_param(cx, f, ty) ==
    [cx EXCEPT !.funcs[f].params =
                    Append(@, Value_param(f, Len(cx.funcs[f].params) + 1, ty))]

\* Func::head
head(cx, f) == IF cx.funcs[f].blocks = <<>> THEN None ELSE Some(cx.funcs[f].blocks[1])

\* Global::new
Global_new(cx, name, init) ==
    [cx EXCEPT !.globals = Append(@, [name |-> name, init |-> init])]

(***************************************************************************)
(* irgen.rs: IrGenContext                                                  *)
(***************************************************************************)
\* IrGenResult::Global
IrGlobal(name, ty) == [res |-> "Global", name |-> name, ty |-> ty]

\* IrGenResult::Value
IrValue(val) == [res |-> "Value", val |-> val]

\* Ty::void / Ty::i1 / Ty::i32
Ty_void == [t |-> "void"]

Ty_i1 == [t |-> "i1"]

Ty_i32 == [t |-> "i32"]

\* IrGenContext::gen_type
gen_type(ty) ==
    CASE ty = Tk_Void -> Ty_void
      [] ty = Tk_Bool -> Ty_i1
      [] ty = Tk_Int -> Ty_i32
      [] OTHER -> Panic

\* IrGenContext::gen_local_comptime
gen_local_comptime(val) ==
    IF val.tag = "Undef"
    THEN IF gen_type(val.ty) = Panic
         THEN Panic
         ELSE Value_const([tag |-> "Undef", ty |-> gen_type(val.ty)])
    ELSE Value_const(val)

\* IrGenContext::gen_global_comptime
gen_global_comptime(val) == gen_local_comptime(val)

\* the value an expression lowered to, with the context it left
Gen(val, cx) == [k |-> "Some", val |-> val, ctx |-> cx]

\* gen_local_expr, LVal arm: the slot of the symbol, as it is when bound to
\* a parameter, or a load from it
gen_lval(ident, cx, stk, cb) ==
    LET entry == lookup(stk, ident)
        slot == IF entry.ir_value.v.res = "Global"
                THEN global_ref(entry.ir_value.v.name, entry.ir_value.v.ty)
                ELSE entry.ir_value.v.val
    IN  IF entry = None THEN Panic
        ELSE IF entry.ir_value = None THEN Panic
        ELSE IF gen_type(entry.ty) = Panic THEN Panic
        ELSE IF is_param(slot)
             THEN Gen(slot, cx)
             ELSE Gen(result(next_inst(cx)),
                      push_back(cx, cb, Inst_load(next_inst(cx), slot, gen_type(entry.ty))))

\* gen_local_expr, Binary arm, once both operands are lowered
gen_ibinary(op, lhs, r, cb) ==
    IF r = Panic
    THEN Panic
    ELSE Gen(result(next_inst(r.ctx)),
             push_back(r.ctx, cb,
                       Inst_ibinary(next_inst(r.ctx), map_int_binary_op(op), lhs, r.val)))

\* IrGenContext::gen_local_expr: the value and the context with the
\* instructions pushed to the current block, or a panic (todo!, unwrap)
RECURSIVE gen_local_expr(_, _, _, _)
gen_rhs(e, l, stk, curr_blk) ==
    IF l = Panic
    THEN Panic
    ELSE gen_ibinary(e.op, l.val, gen_local_expr(e.rhs, l.ctx, stk, curr_blk), curr_blk.v)

gen_local_expr(e, cx, stk, curr_blk) ==
    IF curr_blk = None
    THEN Panic
    ELSE CASE e.kind = "Const" ->
                IF gen_local_comptime(e.val) = Panic
                THEN Panic
                ELSE Gen(gen_local_comptime(e.val), cx)
           [] e.kind = "Binary" ->
                gen_rhs(e, gen_local_expr(e.lhs, cx, stk, curr_blk), stk, curr_blk)
           [] e.kind = "LVal" -> gen_lval(e.ident, cx, stk, curr_blk.v)
           [] OTHER -> Panic

\* the context and the scope stack a lowering step leaves
Lowered(cx, stk) == [k |-> "Some", ctx |-> cx, stack |-> stk]

\* the IR type of a constant
const_ty(val) ==
    CASE val.tag = "Bool" -> Ty_i1
      [] val.tag = "Int" -> Ty_i32
      [] OTHER -> gen_type(val.ty)

\* format!("__GLOBAL_CONST_{}", ident) / format!("__GLOBAL_VAR_{}", ident)
global_name(kind, ident) ==
    [prefix |-> IF kind = "ConstDecl" THEN "__GLOBAL_CONST_" ELSE "__GLOBAL_VAR_",
     ident |-> ident]

\* symtable.insert at the end of a lowering step
lowered_inserted(cx, st) == IF st = Panic THEN Panic ELSE Lowered(cx, st.v)

\* Item::irgen, Decl arm, loop body once the initializer is folded
global_def_folded(kind, ident, init, cx, stk, comptime) ==
    IF comptime.k # "Some" THEN Panic
    ELSE IF gen_global_comptime(comptime.v) = Panic THEN Panic
    ELSE lowered_inserted(
            Global_new(cx, global_name(kind, ident), gen_global_comptime(comptime.v)),
            insert(stk, ident,
                   [ty |-> init.ty.v, comptime |-> comptime,
                    ir_value |-> Some(IrGlobal(global_name(kind, ident),
                                               const_ty(comptime.v)))]))

\* Item::irgen, Decl arm, the body of the loop over the definitions
global_def(kind, def, cx, stk) ==
    IF kind = "ConstDecl"
    THEN global_def_folded(kind, def.ident, def.init, cx, stk, try_fold(def.init, stk))
    ELSE IF def.init = None
         THEN Panic
         ELSE global_def_folded(kind, def.ident, def.init.v, cx, stk,
                                try_fold(def.init.v, stk))

\* Decl::irgen, loop body: the store that ends it
local_def_stored(slot, g, cb, stk) ==
    IF g = Panic
    THEN Panic
    ELSE Lowered(push_back(g.ctx, cb, Inst_store(next_inst(g.ctx), g.val, slot)), stk)

\* Decl::irgen, loop body after symtable.insert: the initializer is lowered
\* with the new symbol already bound
local_def_bound(init, slot, cx, st, cb) ==
    IF st = Panic
    THEN Panic
    ELSE local_def_stored(slot, gen_local_expr(init, cx, st.v, Some(cb)), cb, st.v)

\* Decl::irgen, loop body from the alloca, the slot appended to the block
\* the declaration is lowered in
local_def_alloca_here(ident, init, comptime, cx, stk, eb, cb) ==
    IF gen_type(init.ty.v) = Panic
    THEN Panic
    ELSE local_def_bound(
            init, result(next_inst(cx)),
            push_back(cx, cb, Inst_alloca(next_inst(cx), gen_type(init.ty.v))),
            insert(stk, ident,
                   [ty |-> init.ty.v, comptime |-> comptime,
                    ir_value |-> Some(IrValue(result(next_inst(cx))))]),
            cb)

\* Decl::irgen, loop body from the alloca: the slot goes to the front of the
\* entry block and the symbol is bound to it
local_def_alloca(ident, init, comptime, cx, stk, eb, cb) ==
    IF gen_type(init.ty.v) = Panic
    THEN Panic
    ELSE local_def_bound(
            init, result(next_inst(cx)),
            push_front(cx, eb, Inst_alloca(next_inst(cx), gen_type(init.ty.v))),
            insert(stk, ident,
                   [ty |-> init.ty.v, comptime |-> comptime,
                    ir_value |-> Some(IrValue(result(next_inst(cx))))]),
            cb)

\* Decl::irgen, ConstDecl arm, loop body once the initializer is folded
local_const_folded(def, comptime, cx, stk, eb, cb) ==
    IF comptime.k # "Some"
    THEN Panic
    ELSE local_def_alloca(def.ident, def.init, comptime, cx, stk, eb, cb)

\* Decl::irgen, the body of the loop over the definitions
local_def(kind, def, cx, stk, eb, cb) ==
    IF kind = "ConstDecl"
    THEN local_const_folded(def, try_fold(def.init, stk), cx, stk, eb, cb)
    ELSE IF def.init = None
         THEN Panic
         ELSE local_def_alloca(def.ident, def.init.v, None, cx, stk, eb, cb)

\* the loops over the definitions of a declaration, at top level (eb is
\* None) and inside a function (eb, cb are the entry and current block)
RECURSIVE lower_defs(_, _, _, _, _, _)
lower_defs_next(decl, i, r, eb, cb) ==
    IF r = Panic THEN Panic ELSE lower_defs(decl, i + 1, r.ctx, r.stack, eb, cb)

lower_defs(decl, i, cx, stk, eb, cb) ==
    IF i > Len(decl.defs)
    THEN Lowered(cx, stk)
    ELSE lower_defs_next(decl, i,
                         IF eb = None
                         THEN global_def(decl.kind, decl.defs[i], cx, stk)
                         ELSE local_def(decl.kind, decl.defs[i], cx, stk, eb.v, cb.v),
                         eb, cb)

\* Stmt::irgen, Assign arm: the store that ends it
assign_stored(store_dst, g, cb, stk) ==
    IF g = Panic
    THEN Panic
    ELSE Lowered(push_back(g.ctx, cb, Inst_store(next_inst(g.ctx), g.val, store_dst)), stk)

\* Stmt::irgen, Assign arm
lower_assign(stmt, cx, stk, cb) ==
    LET entry == lookup(stk, stmt.ident)
        slot == IF entry.ir_value.v.res = "Global"
                THEN global_ref(entry.ir_value.v.name, entry.ir_value.v.ty)
                ELSE entry.ir_value.v.val
    IN  IF entry = None THEN Panic
        ELSE IF entry.ir_value = None THEN Panic
        ELSE assign_stored(slot, gen_local_expr(stmt.expr, cx, stk, Some(cb)), cb, stk)

\* Stmt::irgen, Expr arm
expr_lowered(g, stk) == IF g = Panic THEN Panic ELSE Lowered(g.ctx, stk)

\* Stmt::irgen, Return arm: the branch to the return block
return_jump(cx, stk, cb, ret_block) ==
    IF ret_block = None
    THEN Panic
    ELSE Lowered(push_back(cx, cb, Inst_br(next_inst(cx), ret_block.v)), stk)

\* Stmt::irgen, Return arm, a value returned without a store
return_stored_nothing(g, stk, cb, ret_slot, ret_block) ==
    IF g = Panic \/ ret_slot = None
    THEN Panic
    ELSE return_jump(g.ctx, stk, cb, ret_block)

\* Stmt::irgen, Return arm: the store of the value to the return slot
return_stored(g, stk, cb, ret_slot, ret_block) ==
    IF g = Panic \/ ret_slot = None
    THEN Panic
    ELSE return_jump(push_back(g.ctx, cb, Inst_store(next_inst(g.ctx), g.val, ret_slot.v)),
                     stk, cb, ret_block)

\* Stmt::irgen of a statement that holds no other
Stmt_irgen(stmt, cx, stk, curr_blk, ret_slot, ret_block) ==
    IF curr_blk = None
    THEN Panic
    ELSE CASE stmt.kind = "Assign" -> lower_assign(stmt, cx, stk, curr_blk.v)
           [] stmt.kind = "ExprStmt" ->
                IF stmt.expr = None
                THEN Lowered(cx, stk)
                ELSE expr_lowered(gen_local_expr(stmt.expr.v, cx, stk, curr_blk), stk)
           [] stmt.kind = "Return" ->
                IF stmt.expr = None
                THEN return_jump(cx, stk, curr_blk.v, ret_block)
                ELSE return_stored(gen_local_expr(stmt.expr.v, cx, stk, curr_blk),
                                   stk, curr_blk.v, ret_slot, ret_block)
           [] OTHER -> Panic

\* FuncDef::irgen, the loop `block params`: each parameter is added to the
\* function and its symbol bound to the parameter value
RECURSIVE add_params(_, _, _, _, _)
add_params(params, i, cx, st, f) ==
    IF st = Panic THEN Panic
    ELSE IF i > Len(params) THEN Lowered(cx, st.v)
    ELSE IF gen_type(params[i].ty) = Panic THEN Panic
    ELSE add_params(params, i + 1,
                    add_param(cx, f, gen_type(params[i].ty)),
                    insert(st.v, params[i].ident,
                           [ty |-> params[i].ty, comptime |-> None,
                            ir_value |-> Some(IrValue(
                                Value_param(f, Len(cx.funcs[f].params) + 1,
                                            gen_type(params[i].ty))))]),
                    f)

\* FuncDef::irgen, the slot of one parameter: alloca at the front of the
\* entry block, the parameter stored to it, the symbol rebound to the slot
param_slot(param, cx, stk, b) ==
    LET entry == lookup(stk, param.ident)
        slot == result(next_inst(cx))
        ctx1 == push_front(cx, b, Inst_alloca(next_inst(cx), gen_type(param.ty)))
    IN  IF entry = None THEN Panic
        ELSE IF entry.ir_value = None THEN Panic
        ELSE IF entry.ir_value.v.res = "Global" THEN Panic
        ELSE lowered_inserted(
                push_back(ctx1, b, Inst_store(next_inst(ctx1), entry.ir_value.v.val, slot)),
                insert(stk, param.ident,
                       [ty |-> param.ty, comptime |-> None,
                        ir_value |-> Some(IrValue(slot))]))

\* FuncDef::irgen, the loop `create slots for pass-by-value params`
RECURSIVE param_slots(_, _, _, _)
param_slots(params, i, r, b) ==
    IF r = Panic THEN Panic
    ELSE IF i > Len(params) THEN r
    ELSE param_slots(params, i + 1,
                     IF is_int(params[i].ty)
                     THEN param_slot(params[i], r.ctx, r.stack, b)
                     ELSE r,
                     b)

\* FuncDef::irgen up to the return block: scope, function, entry block,
\* parameters and their slots
func_entered(item, cx, stk) ==
    LET f == Len(cx.funcs) + 1
        b == Len(cx.blocks) + 1
    IN  IF gen_type(item.ret_ty) = Panic
        THEN Panic
        ELSE param_slots(
                item.params, 1,
                add_params(item.params, 1,
                           Func_push_back(
                               Block_new(Func_new(cx, item.ident, gen_type(item.ret_ty))),
                               f, b),
                           insert_upper(enter_scope(stk), item.ident,
                                        from_ty(func_ty_of(item)), 1),
                           f),
                b)

\* FuncDef::irgen, `create return block and slot`: the context with the
\* return block made and, unless the function is void, the return slot at
\* the front of the entry block
ret_slot_made(item, cx, b) ==
    IF is_void(item.ret_ty)
    THEN Block_new(cx)
    ELSE push_front(Block_new(cx), b,
                    Inst_alloca(next_inst(cx), gen_type(item.ret_ty)))

\* FuncDef::irgen, after the body: the return block is appended and filled
func_left(item, cx, f, ret_slot, ret_block) ==
    LET ctx1 == Func_push_back(cx, f, ret_block)
        load == Inst_load(next_inst(ctx1), ret_slot.v, gen_type(item.ret_ty))
        ctx2 == push_back(ctx1, ret_block, load)
    IN  IF is_void(item.ret_ty)
        THEN Some(push_back(ctx1, ret_block, Inst_ret(next_inst(ctx1), None)))
        ELSE IF ret_slot = None
             THEN Panic
             ELSE Some(push_back(ctx2, ret_block,
                                 Inst_ret(next_inst(ctx2), Some(result(load.id)))))

(***************************************************************************)
(* The expressions and the symbol table try_fold and coercion are applied  *)
(* to                                                                      *)
(***************************************************************************)
Pending == [k |-> "Pending"]

\* One global scope as the two passes leave it: `a` a const folded to 1
\* (ConstDecl::type_check), `b` a variable (VarDecl::type_check), `u` a
\* global variable without initializer as Item::irgen binds it; `z` unbound.
FoldSymtab ==
    << [n \in {"a", "b", "u"} |->
          CASE n = "a" -> [ty |-> Tk_Int, comptime |-> Some(Cv_Int(1)), ir_value |-> None]
            [] n = "b" -> from_ty(Tk_Int)
            [] n = "u" -> [ty |-> Tk_Int, comptime |-> Some(Cv_Undef(Tk_Int)),
                           ir_value |-> Some("__GLOBAL_VAR_u")]] >>

FoldIdents == {"a", "b", "u", "z"}

FoldVals ==
    {Cv_Bool(TRUE), Cv_Bool(FALSE)} \cup {Cv_Int(i) : i \in I32}
        \cup {Cv_Undef(Tk_Int), Cv_Undef(Tk_Bool)}

Operands == {const_(v) : v \in FoldVals} \cup {lval(n) : n \in FoldIdents}

CoercionNodes(es) ==
    {[kind |-> "Coercion", e |-> x, ty |-> Some(t)] :
        x \in es, t \in {Tk_Bool, Tk_Int, Tk_Void}}

FoldInputs ==
    Operands
        \cup {unary(op, x) : op \in UnaryOp, x \in Operands}
        \cup {binary(op, x, y) : op \in BinaryOp, x \in Operands, y \in Operands}
        \cup CoercionNodes(Operands)
        \cup {func_call("f", <<const_(Cv_Int(1))>>)}

SmallOperands == {const_(Cv_Int(1)), const_(Cv_Bool(TRUE)), lval("b")}

\* nodes as the parser builds them (no type) and as analysis leaves them
\* (type resolved)
CoerceInputs ==
    LET untyped == {unary(op, x) : op \in UnaryOp, x \in SmallOperands}
                     \cup {binary(op, x, y) :
                             op \in {"Add", "Lt", "And"},
                             x \in SmallOperands, y \in SmallOperands}
                     \cup {lval(n) : n \in FoldIdents}
                     \cup {func_call("f", <<>>)}
    IN  {const_(v) : v \in FoldVals}
            \cup untyped
            \cup {[x EXCEPT !.ty = Some(t)] :
                    x \in untyped, t \in {Tk_Bool, Tk_Int, Tk_Void}}
            \cup CoercionNodes(SmallOperands)

\* expr.try_fold(&symtable)
TryFold ==
    /\ fpc = "fold"
    /\ folded' = try_fold(expr, FoldSymtab)
    /\ fpc' = "folded"
    /\ UNCHANGED <<expr, overflow_checks, cto, coerced, coercedTwice, typeVars, symVars, checkVars, unitVars>>

\* Expr::coercion(expr, to)
Coerce ==
    /\ fpc = "coerce"
    /\ \E to \in {Tk_Bool, Tk_Int, Tk_Void} :
        /\ cto' = to
        /\ coerced' = coercion(expr, to)
    /\ fpc' = "coerced"
    /\ UNCHANGED <<expr, overflow_checks, folded, coercedTwice, typeVars, symVars, checkVars, unitVars>>

\* Expr::coercion applied to the result, with the same target
CoerceAgain ==
    /\ fpc = "coerced"
    /\ coercedTwice' = coercion(coerced, cto)
    /\ fpc' = "coerced_twice"
    /\ UNCHANGED <<expr, overflow_checks, folded, cto, coerced, typeVars, symVars, checkVars, unitVars>>

FoldIdle ==
    /\ expr = Pending
    /\ overflow_checks = TRUE
    /\ fpc = "idle"
    /\ folded = Pending
    /\ cto = Pending
    /\ coerced = Pending
    /\ coercedTwice = Pending

FoldInit ==
    /\ \/ fpc = "fold" /\ expr \in FoldInputs
       \/ fpc = "coerce" /\ expr \in CoerceInputs
    /\ overflow_checks \in BOOLEAN
    /\ folded = Pending
    /\ cto = Pending
    /\ coerced = Pending
    /\ coercedTwice = Pending

(***************************************************************************)
(* The expressions and statements type_check is applied to, and the scopes *)
(* it resolves names in                                                    *)
(***************************************************************************)
MaxArgs == 2

\* Two scopes as analysis meets them inside a function body: a global const
\* `c` folded to 1 and the functions f(int) -> int, g() -> void and
\* h(int, bool) -> bool; the parameters `x` (int) and `p` (bool).  `z` is
\* bound nowhere.
CheckSymtab ==
    << [n \in {"c", "f", "g", "h"} |->
          CASE n = "c" -> [ty |-> Tk_Int, comptime |-> Some(Cv_Int(1)), ir_value |-> None]
            [] n = "f" -> from_ty(Tk_Func(<<Tk_Int>>, Tk_Int))
            [] n = "g" -> from_ty(Tk_Func(<<>>, Tk_Void))
            [] n = "h" -> from_ty(Tk_Func(<<Tk_Int, Tk_Bool>>, Tk_Bool))],
       [n \in {"x", "p"} |-> IF n = "x" THEN from_ty(Tk_Int) ELSE from_ty(Tk_Bool)] >>

CheckLeaves ==
    {const_(Cv_Int(i)) : i \in {0, 1, I32_MAX}}
        \cup {const_(Cv_Bool(b)) : b \in BOOLEAN}
        \cup {lval(n) : n \in {"x", "p", "c", "z", "f"}}

CheckArgs == {const_(Cv_Int(1)), lval("p"), lval("z")}

SeqsUpTo(S, n) == UNION {[1..m -> S] : m \in 0..n}

CheckCalls ==
    {func_call(n, args) : n \in {"f", "g", "h", "x", "z"}, args \in SeqsUpTo(CheckArgs, MaxArgs)}

\* expressions as the parser builds them: only constants carry a type
CheckExprs ==
    CheckLeaves
        \cup CheckCalls
        \cup {unary(op, e) : op \in UnaryOp, e \in CheckLeaves}
        \cup {binary(op, l, r) : op \in BinaryOp, l \in CheckLeaves, r \in CheckLeaves}
        \cup {binary("Add", func_call("f", <<const_(Cv_Int(1))>>), lval("x")),
              binary("Add", func_call("g", <<>>), lval("x")),
              unary("Not", binary("Lt", lval("x"), const_(Cv_Int(1)))),
              binary("Add", binary("Add", lval("x"), lval("c")), lval("c"))}

ReturnTypes == {None, Some(Tk_Int), Some(Tk_Bool), Some(Tk_Void)}

CheckStmts ==
    {return(None), expr_stmt(None)}
        \cup {return(Some(e)) : e \in CheckExprs}
        \cup {expr_stmt(Some(e)) : e \in CheckCalls}
        \cup {assign(n, e) : n \in {"x", "p", "c", "z", "f"},
                             e \in CheckLeaves \cup {func_call("f", <<lval("x")>>)}}

\* expr.type_check(expect, &symtable)
ExprTypeCheck ==
    /\ cpc = "expr"
    /\ checked' = type_check(cnode, cexpect, stack)
    /\ cpc' = "done"
    /\ UNCHANGED <<cnode, cexpect, curr_ret_ty, typeVars, symVars, foldVars, unitVars>>

\* stmt.type_check(&mut symtable)
StmtTypeCheck ==
    /\ cpc = "stmt"
    /\ checked' = Stmt_type_check(cnode, stack, curr_ret_ty)
    /\ cpc' = "done"
    /\ UNCHANGED <<cnode, cexpect, curr_ret_ty, typeVars, symVars, foldVars, unitVars>>

CheckIdle ==
    /\ cnode = Pending
    /\ cexpect = None
    /\ curr_ret_ty = None
    /\ checked = Pending
    /\ cpc = "idle"

CheckInit ==
    /\ stack = CheckSymtab
    /\ symPanic = FALSE
    /\ lastOp = Op("default")
    /\ upperTrack = <<>>
    /\ expr = Pending
    /\ overflow_checks \in BOOLEAN
    /\ fpc = "idle"
    /\ folded = Pending
    /\ cto = Pending
    /\ coerced = Pending
    /\ coercedTwice = Pending
    /\ \/ /\ cpc = "expr"
          /\ cnode \in CheckExprs
          /\ cexpect \in ReturnTypes
          /\ curr_ret_ty = None
       \/ /\ cpc = "stmt"
          /\ cnode \in CheckStmts
          /\ cexpect = None
          /\ curr_ret_ty \in ReturnTypes
    /\ checked = Pending

(***************************************************************************)
(* The compilation units the two passes are run on                         *)
(***************************************************************************)
IntLit(i) == const_(Cv_Int(i))

\* const int a = 1, b = 2;
ConstAB == const_decl(Tk_Int, <<Def("a", IntLit(1)), Def("b", IntLit(2))>>)

\* the global declarations a unit starts with
UnitGlobals ==
    { <<>>,
      <<ConstAB>>,
      <<var_decl(Tk_Int, <<Def("v", None)>>),
        const_decl(Tk_Int, <<Def("a", IntLit(1))>>),
        const_decl(Tk_Int, <<Def("b", binary("Add", lval("a"), IntLit(1)))>>)>> }

UnitParams ==
    { <<>>,
      <<Param(Tk_Int, "x")>>,
      <<Param(Tk_Bool, "p")>>,
      <<Param(Tk_Int, "f")>>,
      <<Param(Tk_Int, "x"), Param(Tk_Bool, "p")>> }

UnitRetTypes == {Tk_Int, Tk_Bool, Tk_Void}

\* return x + a + b;
BodySum == <<return(Some(binary("Add", binary("Add", lval("x"), lval("a")), lval("b"))))>>

\* int y; y = 5; return y;
BodyG ==
    <<var_decl(Tk_Int, <<Def("y", None)>>), assign("y", IntLit(5)), return(Some(lval("y")))>>

\* int x = x + 1; return x;
BodySelfInit ==
    <<var_decl(Tk_Int, <<Def("x", Some(binary("Add", lval("x"), IntLit(1))))>>),
      return(Some(lval("x")))>>

\* { const int k = 2, m = k + 1; int y = m; y = y + k; } return a;
BodyNested ==
    <<block(<<const_decl(Tk_Int, <<Def("k", IntLit(2)),
                                   Def("m", binary("Add", lval("k"), IntLit(1)))>>),
              var_decl(Tk_Int, <<Def("y", Some(lval("m")))>>),
              assign("y", binary("Add", lval("y"), lval("k")))>>),
      return(Some(lval("a")))>>

UnitBodies ==
    { <<>>,
      BodySum,
      BodyG,
      BodySelfInit,
      BodyNested,
      <<return(None)>>,
      <<return(Some(IntLit(1))), return(Some(IntLit(2)))>>,
      <<assign("p", lval("p")), return(None)>>,
      <<expr_stmt(Some(lval("p"))), return(Some(IntLit(0)))>>,
      <<assign("x", binary("Add", lval("x"), IntLit(1))), return(Some(lval("x")))>>,
      <<expr_stmt(Some(func_call("f", <<IntLit(1)>>))), return(Some(IntLit(0)))>>,
      <<block(<<expr_stmt(Some(func_call("f", <<>>)))>>)>>,
      <<var_decl(Tk_Int, <<Def("f", None)>>), expr_stmt(Some(func_call("f", <<>>)))>>,
      <<const_decl(Tk_Int, <<Def("k", lval("x"))>>)>>,
      <<var_decl(Tk_Int, <<Def("y", Some(binary("Lt", IntLit(1), IntLit(2))))>>),
        return(Some(lval("y")))>>,
      <<var_decl(Tk_Int, <<Def("a", Some(IntLit(5)))>>), return(Some(lval("a")))>>,
      <<[kind |-> "Break"]>> }

\* what follows the function `f` in the unit
UnitTails ==
    { <<>>,
      <<func_def(Tk_Void, "g", <<>>, block(<<return(None)>>))>>,
      <<func_def(Tk_Int, "g", <<Param(Tk_Int, "x")>>,
                 block(<<return(Some(func_call("f", <<lval("x")>>)))>>))>>,
      <<var_decl(Tk_Int, <<Def("w", Some(func_call("f", <<>>)))>>)>> }

\* int g() { int y; y = 5; return y; }
UnitG == <<func_def(Tk_Int, "g", <<>>, block(BodyG))>>

\* const int a = 1, b = 2; int f(int x) { return x + a + b; }
UnitF == <<ConstAB, func_def(Tk_Int, "f", <<Param(Tk_Int, "x")>>, block(BodySum))>>

Units ==
    {UnitG}
        \cup {globals \o <<func_def(ret_ty, "f", params, block(body))>> \o tail :
                globals \in UnitGlobals, ret_ty \in UnitRetTypes, params \in UnitParams,
                body \in UnitBodies, tail \in UnitTails}

UnitIdle ==
    /\ unit = <<>>
    /\ upc = "idle"
    /\ todo = <<>>
    /\ built = <<>>
    /\ analysed = <<>>
    /\ ctx = EmptyContext
    /\ curr_func = None
    /\ curr_func_name = None
    /\ curr_block = None
    /\ curr_ret_slot = None
    /\ curr_ret_block = None

\* SymbolTable::default, IrGenContext::default and a parsed unit
UnitInit ==
    /\ unit \in Units
    /\ upc = "parsed"
    /\ todo = <<>>
    /\ built = <<>>
    /\ analysed = <<>>
    /\ ctx = EmptyContext
    /\ curr_func = None
    /\ curr_func_name = None
    /\ curr_block = None
    /\ curr_ret_slot = None
    /\ curr_ret_block = None
    /\ SymInit
    /\ curr_ret_ty = None
    /\ cnode = Pending
    /\ cexpect = None
    /\ checked = Pending
    /\ cpc = "idle"
    /\ expr = Pending
    /\ overflow_checks \in BOOLEAN
    /\ fpc = "idle"
    /\ folded = Pending
    /\ cto = Pending
    /\ coerced = Pending
    /\ coercedTwice = Pending

(***************************************************************************)
(* The two passes over a compilation unit, one node at a time.  `todo` is  *)
(* what the pass still has to visit, innermost first: block items, and a   *)
(* mark where a block, a function or the unit ends.  `built` holds the     *)
(* rewritten items of every block still open.                              *)
(***************************************************************************)
LeaveBlock == [kind |-> "LeaveBlock"]

EndFunc(item) == [kind |-> "EndFunc", item |-> item]

LeaveUnit == [kind |-> "LeaveUnit"]

\* new_items.push(item) in the innermost open block
push_built(blt, item) == [blt EXCEPT ![Len(blt)] = Append(@, item)]

\* a block or function closes: its rewritten node joins the enclosing items
close_built(blt, node) ==
    push_built(SubSeq(blt, 1, Len(blt) - 1), node)

DeclKinds == {"ConstDecl", "VarDecl"}

StmtKinds == {"Assign", "ExprStmt", "Break", "Continue", "Return"}

\* CompUnit::type_check, up to the loop over the items
CheckUnitEnter ==
    /\ upc = "parsed"
    /\ stack' = enter_scope(<<>>)
    /\ curr_ret_ty' = None
    /\ todo' = unit \o <<LeaveUnit>>
    /\ built' = << <<>> >>
    /\ upc' = "check"
    /\ UNCHANGED <<unit, analysed, irVars>>
    /\ UNCHANGED unitRest

\* ConstDecl::type_check / VarDecl::type_check of the next item
CheckDecl ==
    /\ upc = "check"
    /\ Head(todo).kind \in DeclKinds
    /\ LET r == check_defs(Head(todo), 1, <<>>, stack)
       IN  IF r = Panic
           THEN /\ upc' = "panic"
                /\ UNCHANGED <<stack, todo, built>>
           ELSE /\ stack' = r.stack
                /\ built' = push_built(built, r.v)
                /\ todo' = Tail(todo)
                /\ upc' = upc
    /\ UNCHANGED <<unit, curr_ret_ty, analysed, irVars>>
    /\ UNCHANGED unitRest

\* Stmt::type_check of the next item, a statement holding no other
CheckStmt ==
    /\ upc = "check"
    /\ Head(todo).kind \in StmtKinds
    /\ LET r == Stmt_type_check(Head(todo), stack, curr_ret_ty)
       IN  IF r = Panic
           THEN /\ upc' = "panic"
                /\ UNCHANGED <<todo, built>>
           ELSE /\ built' = push_built(built, r.v)
                /\ todo' = Tail(todo)
                /\ upc' = upc
    /\ UNCHANGED <<unit, stack, curr_ret_ty, analysed, irVars>>
    /\ UNCHANGED unitRest

\* Block::type_check, up to the loop over the items
CheckBlockEnter ==
    /\ upc = "check"
    /\ Head(todo).kind = "Block"
    /\ stack' = enter_scope(stack)
    /\ todo' = Head(todo).items \o <<LeaveBlock>> \o Tail(todo)
    /\ built' = Append(built, <<>>)
    /\ UNCHANGED <<unit, upc, curr_ret_ty, analysed, irVars>>
    /\ UNCHANGED unitRest

\* Block::type_check, after the loop
CheckBlockLeave ==
    /\ upc = "check"
    /\ Head(todo) = LeaveBlock
    /\ stack' = leave_scope(stack)
    /\ built' = close_built(built, block(built[Len(built)]))
    /\ todo' = Tail(todo)
    /\ UNCHANGED <<unit, upc, curr_ret_ty, analysed, irVars>>
    /\ UNCHANGED unitRest

\* Item::type_check, FuncDef arm, binding the function in the parameter scope
FuncEnterInner(item, params) ==
    IF params = Panic
    THEN Panic
    ELSE insert(params.v, item.ident, from_ty(func_ty_of(item)))

\* Item::type_check, FuncDef arm, up to body.type_check
FuncEnterChecked(item, params) ==
    IF params = Panic
    THEN Panic
    ELSE insert_upper(params.v, item.ident, from_ty(func_ty_of(item)), 1)

CheckFuncEnter ==
    /\ upc = "check"
    /\ Head(todo).kind = "FuncDef"
    /\ LET item == Head(todo)
           r == FuncEnterChecked(item, insert_params(item.params, 1, enter_scope(stack)))
       IN  IF r = Panic
           THEN /\ upc' = "panic"
                /\ UNCHANGED <<stack, curr_ret_ty, todo, built>>
           ELSE /\ stack' = r.v
                /\ curr_ret_ty' = Some(item.ret_ty)
                /\ todo' = <<item.body, EndFunc(item)>> \o Tail(todo)
                /\ built' = Append(built, <<>>)
                /\ upc' = upc
    /\ UNCHANGED <<unit, analysed, irVars>>
    /\ UNCHANGED unitRest

\* Item::type_check, FuncDef arm, leaving the ambient return type set
CheckFuncLeaveKeepRet ==
    /\ upc = "check"
    /\ Head(todo).kind = "EndFunc"
    /\ curr_ret_ty' = curr_ret_ty
    /\ stack' = leave_scope(stack)
    /\ built' = close_built(built, [Head(todo).item EXCEPT !.body = built[Len(built)][1]])
    /\ todo' = Tail(todo)
    /\ UNCHANGED <<unit, upc, analysed, irVars>>
    /\ UNCHANGED unitRest

\* Item::type_check, FuncDef arm, after body.type_check
CheckFuncLeave ==
    /\ upc = "check"
    /\ Head(todo).kind = "EndFunc"
    /\ curr_ret_ty' = None
    /\ stack' = leave_scope(stack)
    /\ built' = close_built(built, [Head(todo).item EXCEPT !.body = built[Len(built)][1]])
    /\ todo' = Tail(todo)
    /\ UNCHANGED <<unit, upc, analysed, irVars>>
    /\ UNCHANGED unitRest

\* CompUnit::type_check, after the loop
CheckUnitLeave ==
    /\ upc = "check"
    /\ Head(todo) = LeaveUnit
    /\ stack' = leave_scope(stack)
    /\ analysed' = built[1]
    /\ todo' = <<>>
    /\ built' = <<>>
    /\ upc' = "checked"
    /\ UNCHANGED <<unit, curr_ret_ty, irVars>>
    /\ UNCHANGED unitRest

\* CompUnit::irgen, up to the loop over the items
LowerUnitEnter ==
    /\ upc = "checked"
    /\ stack' = enter_scope(<<>>)
    /\ todo' = analysed \o <<LeaveUnit>>
    /\ upc' = "lower"
    /\ UNCHANGED <<unit, built, analysed, curr_ret_ty, irVars>>
    /\ UNCHANGED unitRest

\* Item::irgen of a declaration, Decl::irgen of a declaration in a block
LowerDecl ==
    /\ upc = "lower"
    /\ Head(todo).kind \in DeclKinds
    /\ LET r == lower_defs(Head(todo), 1, ctx, stack,
                           IF curr_func = None THEN None ELSE head(ctx, curr_func.v),
                           curr_block)
       IN  IF r = Panic
           THEN /\ upc' = "panic"
                /\ UNCHANGED <<ctx, stack, todo>>
           ELSE /\ ctx' = r.ctx
                /\ stack' = r.stack
                /\ todo' = Tail(todo)
                /\ upc' = upc
    /\ UNCHANGED <<unit, built, analysed, curr_ret_ty, curr_func, curr_func_name,
                   curr_block, curr_ret_slot, curr_ret_block>>
    /\ UNCHANGED unitRest

\* Stmt::irgen of the next item, a statement holding no other
LowerStmt ==
    /\ upc = "lower"
    /\ Head(todo).kind \in StmtKinds
    /\ LET r == Stmt_irgen(Head(todo), ctx, stack, curr_block, curr_ret_slot,
                           curr_ret_block)
       IN  IF r = Panic
           THEN /\ upc' = "panic"
                /\ UNCHANGED <<ctx, todo>>
           ELSE /\ ctx' = r.ctx
                /\ todo' = Tail(todo)
                /\ upc' = upc
    /\ UNCHANGED <<unit, built, analysed, stack, curr_ret_ty, curr_func, curr_func_name,
                   curr_block, curr_ret_slot, curr_ret_block>>
    /\ UNCHANGED unitRest

\* ast::Block::irgen, up to the loop over the items
LowerBlockEnter ==
    /\ upc = "lower"
    /\ Head(todo).kind = "Block"
    /\ stack' = enter_scope(stack)
    /\ todo' = Head(todo).items \o <<LeaveBlock>> \o Tail(todo)
    /\ UNCHANGED <<unit, upc, built, analysed, curr_ret_ty, irVars>>
    /\ UNCHANGED unitRest

\* ast::Block::irgen, after the loop
LowerBlockLeave ==
    /\ upc = "lower"
    /\ Head(todo) = LeaveBlock
    /\ stack' = leave_scope(stack)
    /\ todo' = Tail(todo)
    /\ UNCHANGED <<unit, upc, built, analysed, curr_ret_ty, irVars>>
    /\ UNCHANGED unitRest

\* FuncDef::irgen, up to self.body.irgen
LowerFuncEnter ==
    /\ upc = "lower"
    /\ Head(todo).kind = "FuncDef"
    /\ LET item == Head(todo)
           r == func_entered(item, ctx, stack)
           b == Len(ctx.blocks) + 1
       IN  IF r = Panic
           THEN /\ upc' = "panic"
                /\ UNCHANGED <<ctx, stack, todo, curr_func, curr_func_name, curr_block,
                               curr_ret_slot, curr_ret_block>>
           ELSE /\ ctx' = ret_slot_made(item, r.ctx, b)
                /\ stack' = r.stack
                /\ curr_func' = Some(Len(ctx.funcs) + 1)
                /\ curr_func_name' = Some(item.ident)
                /\ curr_block' = Some(b)
                /\ curr_ret_block' = Some(Len(r.ctx.blocks) + 1)
                /\ curr_ret_slot' = IF is_void(item.ret_ty)
                                    THEN curr_ret_slot
                                    ELSE Some(result(next_inst(r.ctx)))
                /\ todo' = <<item.body, EndFunc(item)>> \o Tail(todo)
                /\ upc' = upc
    /\ UNCHANGED <<unit, built, analysed, curr_ret_ty>>
    /\ UNCHANGED unitRest

\* FuncDef::irgen, after self.body.irgen
LowerFuncLeave ==
    /\ upc = "lower"
    /\ Head(todo).kind = "EndFunc"
    /\ LET r == func_left(Head(todo).item, ctx, curr_func.v, curr_ret_slot,
                          curr_ret_block.v)
       IN  IF r = Panic
           THEN /\ upc' = "panic"
                /\ UNCHANGED <<ctx, stack, todo, curr_func, curr_func_name, curr_block,
                               curr_ret_slot, curr_ret_block>>
           ELSE /\ ctx' = r.v
                /\ curr_func' = None
                /\ curr_func_name' = None
                /\ curr_block' = None
                /\ curr_ret_slot' = None
                /\ curr_ret_block' = None
                /\ stack' = leave_scope(stack)
                /\ todo' = Tail(todo)
                /\ upc' = upc
    /\ UNCHANGED <<unit, built, analysed, curr_ret_ty>>
    /\ UNCHANGED unitRest

\* CompUnit::irgen, after the loop
LowerUnitLeave ==
    /\ upc = "lower"
    /\ Head(todo) = LeaveUnit
    /\ stack' = leave_scope(stack)
    /\ todo' = <<>>
    /\ upc' = "lowered"
    /\ UNCHANGED <<unit, built, analysed, curr_ret_ty, irVars>>
    /\ UNCHANGED unitRest

(***************************************************************************)
(* Specifications                                                          *)
(***************************************************************************)
InitType == TypeInit /\ SymInit /\ FoldIdle /\ CheckIdle /\ UnitIdle

NextType == void \/ bool \/ int \/ func

SpecType == InitType /\ [][NextType]_vars

InitSym == TypeInit /\ SymInit /\ FoldIdle /\ CheckIdle /\ UnitIdle

NextSym == EnterScope \/ LeaveScope \/ Insert \/ InsertUpper

SpecSym == InitSym /\ [][NextSym]_vars

InitFold == TypeInit /\ SymInit /\ FoldInit /\ CheckIdle /\ UnitIdle

NextFold == TryFold \/ Coerce \/ CoerceAgain

SpecFold == InitFold /\ [][NextFold]_vars

InitCheck == TypeInit /\ CheckInit /\ UnitIdle

NextCheck == ExprTypeCheck \/ StmtTypeCheck

SpecCheck == InitCheck /\ [][NextCheck]_vars

InitUnit == TypeInit /\ UnitInit

NextUnit ==
    \/ CheckUnitEnter \/ CheckDecl \/ CheckStmt \/ CheckBlockEnter \/ CheckBlockLeave
    \/ CheckFuncEnter \/ CheckFuncLeave \/ CheckUnitLeave
    \/ LowerUnitEnter \/ LowerDecl \/ LowerStmt \/ LowerBlockEnter \/ LowerBlockLeave
    \/ LowerFuncEnter \/ LowerFuncLeave \/ LowerUnitLeave

SpecUnit == InitUnit /\ [][NextUnit]_vars

(***************************************************************************)
(* Properties of the type pool (SpecType)                                  *)
(***************************************************************************)
TypeInterningInv ==
    /\ \A x \in made, y \in made :
          (KindShape(x.kind) = KindShape(y.kind)) <=> (x.ty = y.ty)
    /\ \A p \in POOL, q \in POOL :
          KindShape(p.kind) = KindShape(q.kind) => p = q
    /\ made \subseteq POOL
    /\ reused \subseteq made

\* C1: over any sequence of Type::make calls, two calls return the same
\* handle exactly when their kinds are structurally equal, the pool holds at
\* most one handle per structure, and no step removes an entry of the pool.
C1_TypeInterning ==
    /\ []TypeInterningInv
    /\ [][POOL \subseteq POOL']_vars

\* A function type with a parameter was made and then made again from the
\* same handles, as was a base type, next to a second function type.
C1_Witness ==
    /\ \E x \in reused : x.kind.k = "Func" /\ Len(x.kind.params) = 1
    /\ \E x \in reused : x.kind.k # "Func"
    /\ Cardinality({x \in made : x.kind.k = "Func"}) >= 2

(***************************************************************************)
(* Properties of the symbol table (SpecSym)                                *)
(***************************************************************************)
\* the scopes of a stack that bind a name
Binding(stk, name) == {i \in 1..Len(stk) : name \in DOMAIN stk[i]}

\* the entry of the innermost scope of the first n that binds the name
Innermost(stk, n, name) ==
    LET live == {i \in Binding(stk, name) : i <= n}
    IN  IF live = {} THEN None ELSE stk[Max(live)][name]

\* C2: lookup and lookup_mut return the entry of the innermost live scope
\* that contains the name, and None only when no live scope contains it.
C2_LookupInnermost ==
    \A name \in Names :
        /\ lookup(stack, name) = Innermost(stack, Len(stack), name)
        /\ lookup_mut(stack, name) = Innermost(stack, Len(stack), name)
        /\ (lookup(stack, name) = None) <=> (Binding(stack, name) = {})

\* `a` is bound in two live scopes to different entries and the inner one is
\* found; `b` is bound only in an outer scope and is found there.
C2_Witness ==
    /\ Len(stack) = 3
    /\ Binding(stack, "a") = {1, 3}
    /\ stack[1]["a"] # stack[3]["a"]
    /\ lookup(stack, "a") = stack[3]["a"]
    /\ Binding(stack, "b") = {2}
    /\ lookup(stack, "b") = stack[2]["b"]

\* C3: a leave_scope on a non-empty stack removes the innermost scope and
\* nothing else: every enclosing scope is unchanged, and each name resolves
\* to what the enclosing scopes bind it to (None when they do not).
C3_LeaveScopeFrame ==
    [][(lastOp'.op = "leave_scope" /\ Len(stack) > 0) =>
          /\ Len(stack') = Len(stack) - 1
          /\ \A i \in 1..Len(stack') : stack'[i] = stack[i]
          /\ lastOp'.popped = <<stack[Len(stack)]>>
          /\ \A name \in Names :
                lookup(stack', name) = Innermost(stack, Len(stack) - 1, name)]_vars

\* The popped scope bound both names; one was bound nowhere else and is gone,
\* the other shadowed a different outer entry, which is found again.
C3_Witness ==
    /\ lastOp.op = "leave_scope"
    /\ lastOp.popped # <<>>
    /\ DOMAIN lastOp.popped[1] = Names
    /\ \E name \in Names : lookup(stack, name) = None
    /\ \E name \in Names :
          /\ lookup(stack, name) # None
          /\ lookup(stack, name) # lastOp.popped[1][name]

\* C4: after insert_upper(name, entry, 1) the entry is in the scope directly
\* enclosing the innermost one and the name is found; after one leave_scope
\* the name resolves to that entry; after a second leave_scope the scope
\* that held it is gone and the name is found only if an outer scope binds
\* it.
C4_InsertUpperOne ==
    (upperTrack # <<>> /\ ~symPanic) =>
        LET t == upperTrack[1]
        IN  /\ t.pops = 0 =>
                /\ Len(stack) = t.depth
                /\ t.name \in DOMAIN stack[Len(stack) - 1]
                /\ stack[Len(stack) - 1][t.name] = t.entry
                /\ lookup(stack, t.name) # None
            /\ t.pops = 1 =>
                /\ Len(stack) = t.depth - 1
                /\ lookup(stack, t.name) = t.entry
            /\ t.pops = 2 =>
                /\ Len(stack) = t.depth - 2
                /\ (lookup(stack, t.name) # None) <=>
                      (\E i \in 1..(t.depth - 2) : t.name \in DOMAIN stack[i])

\* insert_upper(name, entry, 1) was followed by two leave_scope calls and the
\* name, bound in no outer scope, is no longer found.
C4_Witness ==
    /\ upperTrack # <<>>
    /\ upperTrack[1].pops = 2
    /\ Len(stack) = 1
    /\ lookup(stack, upperTrack[1].name) = None

(***************************************************************************)
(* Properties of compile-time values, folding and coercion (SpecFold)      *)
(***************************************************************************)
IsDefined(val) == val.tag \in {"Bool", "Int"}

\* the integer a defined value widens to: true is 1, false is 0
Widened(val) == IF val.tag = "Bool" THEN as_i32(val.b) ELSE val.i

\* try_fold ran on a binary operator applied to two constants
FoldedConstPair ==
    /\ fpc = "folded"
    /\ expr.kind = "Binary"
    /\ expr.lhs.kind = "Const"
    /\ expr.rhs.kind = "Const"

\* try_fold ran on a unary operator applied to a constant
FoldedConstUnary ==
    /\ fpc = "folded"
    /\ expr.kind = "Unary"
    /\ expr.e.kind = "Const"

\* a comparison of two mathematical integers
IntCompare(op, a, b) ==
    CASE op = "Lt" -> a < b
      [] op = "Gt" -> a > b
      [] op = "Le" -> a <= b
      [] op = "Ge" -> a >= b
      [] op = "Eq" -> a = b
      [] op = "Ne" -> a # b

\* C5: on two defined values, equality, ordering and + - * / % give what the
\* same operator gives on the two values widened to Int; a comparison is the
\* comparison of the widened integers; an arithmetic result is an Int;
\* Bool(true) == Int(1) and Bool(false) + Int(5) = Int(5).
C5_BoolIntWidening ==
    (/\ FoldedConstPair
     /\ IsDefined(expr.lhs.val)
     /\ IsDefined(expr.rhs.val)
     /\ expr.op \in ArithOps \cup CmpOps) =>
        LET a == Widened(expr.lhs.val)
            b == Widened(expr.rhs.val)
        IN  /\ folded = try_fold(binary(expr.op, const_(Cv_Int(a)), const_(Cv_Int(b))),
                                 FoldSymtab)
            /\ (expr.op \in ArithOps /\ folded.k = "Some") => folded.v.tag = "Int"
            /\ expr.op \in CmpOps => folded = Some(Cv_Bool(IntCompare(expr.op, a, b)))
            /\ expr = binary("Eq", const_(Cv_Bool(TRUE)), const_(Cv_Int(1)))
                  => folded = Some(Cv_Bool(TRUE))
            /\ expr = binary("Add", const_(Cv_Bool(FALSE)), const_(Cv_Int(5)))
                  => folded = Some(Cv_Int(5))

\* Bool(true) + Bool(true) was folded and gave Int(2).
C5_Witness ==
    /\ FoldedConstPair
    /\ expr = binary("Add", const_(Cv_Bool(TRUE)), const_(Cv_Bool(TRUE)))
    /\ folded = Some(Cv_Int(2))

\* C6: + - * / %, && and || with an Undef operand, and unary - and ! of
\* Undef, panic and yield no value.
C6_UndefOperandPanics ==
    /\ (/\ FoldedConstPair
        /\ expr.op \in ArithOps \cup LogicOps
        /\ (expr.lhs.val.tag = "Undef" \/ expr.rhs.val.tag = "Undef"))
          => folded = Panic
    /\ (FoldedConstUnary /\ expr.e.val.tag = "Undef") => folded = Panic

\* Negating Undef(int) was folded and panicked.
C6_Witness ==
    /\ FoldedConstUnary
    /\ expr = unary("Neg", const_(Cv_Undef(Tk_Int)))
    /\ folded = Panic

\* the expression folds to an Undef value in the symbol table of SpecFold
FoldsToUndef(e) ==
    LET r == try_fold(e, FoldSymtab)
    IN  r.k = "Some" /\ r.v.tag = "Undef"

\* C7: folding a comparison or equality with an operand that folds to Undef
\* never returns a Bool.
C7_CmpUndefIsError ==
    (/\ fpc = "folded"
     /\ expr.kind = "Binary"
     /\ expr.op \in CmpOps
     /\ (FoldsToUndef(expr.lhs) \/ FoldsToUndef(expr.rhs)))
        => ~(folded.k = "Some" /\ folded.v.tag = "Bool")

\* C8: coercion(e, T) is e when e has resolved type T and a Coercion node of
\* type T around e otherwise; coercing the result to T again changes
\* nothing.
C8_CoercionIdempotent ==
    /\ fpc \in {"coerced", "coerced_twice"} =>
          IF expr.ty = Some(cto)
          THEN coerced = expr
          ELSE /\ coerced.kind = "Coercion"
               /\ coerced.e = expr
               /\ coerced.ty = Some(cto)
    /\ fpc = "coerced_twice" => coercedTwice = coerced

\* A Bool-typed binary node was coerced to Int, which wrapped it, and coerced
\* to Int again, which did not.
C8_Witness ==
    /\ fpc = "coerced_twice"
    /\ expr.kind = "Binary"
    /\ expr.ty = Some(Tk_Bool)
    /\ cto = Tk_Int
    /\ coerced.kind = "Coercion"
    /\ coerced.e = expr
    /\ coercedTwice = coerced

\* the quotient of a by b rounded toward zero, by its defining property
RefQuot(a, b) ==
    CHOOSE q \in (0 - 2 ^ IntBits)..(2 ^ IntBits) :
        LET r == a - q * b
        IN  Abs(r) < Abs(b) /\ (r = 0 \/ (r > 0) = (a > 0))

\* the mathematical result of an arithmetic operator
RefArith(op, a, b) ==
    CASE op = "Add" -> a + b
      [] op = "Sub" -> a - b
      [] op = "Mul" -> a * b
      [] op = "Div" -> RefQuot(a, b)
      [] op = "Mod" -> a - b * RefQuot(a, b)

\* the i32 operation has a result: it does not leave the range, and it is
\* not MIN / -1 or MIN % -1
NoOverflow(op, a, b) ==
    IF op \in {"Div", "Mod"}
    THEN ~(a = I32_MIN /\ b = -1)
    ELSE RefArith(op, a, b) \in I32

\* what try_fold gives on Int literals; `all` extends the arithmetic cases
\* to the operand pairs whose i32 operation overflows
FoldIntLiterals(all) ==
    /\ (fpc = "folded" /\ expr.kind = "Const" /\ expr.val.tag = "Int")
          => folded = Some(expr.val)
    /\ (/\ FoldedConstUnary
        /\ expr.op = "Neg"
        /\ expr.e.val.tag = "Int"
        /\ (all \/ 0 - expr.e.val.i \in I32))
          => folded = Some(Cv_Int(wrap(0 - expr.e.val.i)))
    /\ (/\ FoldedConstPair
        /\ expr.lhs.val.tag = "Int"
        /\ expr.rhs.val.tag = "Int") =>
          LET a == expr.lhs.val.i
              b == expr.rhs.val.i
          IN  /\ (/\ expr.op \in ArithOps
                  /\ expr.op \in {"Div", "Mod"} => b # 0
                  /\ (all \/ NoOverflow(expr.op, a, b)))
                    => folded = Some(Cv_Int(wrap(RefArith(expr.op, a, b))))
              /\ expr.op \in CmpOps
                    => folded = Some(Cv_Bool(IntCompare(expr.op, a, b)))
              /\ expr.op = "And" => folded = Some(Cv_Bool(a # 0 /\ b # 0))
              /\ expr.op = "Or" => folded = Some(Cv_Bool(a # 0 \/ b # 0))

\* C9 as stated: for all Int literals a and b (b non-zero for / and %),
\* try_fold returns Int(a op b) for + - * / %, Bool(a op b) for comparisons,
\* the truthiness conjunction and disjunction for && and ||, Int(-a) for
\* unary negate, and a literal folds to itself.
C9_Original == FoldIntLiterals(TRUE)

\* C9 amended: the same, for the operands whose i32 operation does not
\* overflow (the result of + - * and of negation is in range, and / and %
\* are not applied to MIN and -1).
C9_FoldIntLiterals == FoldIntLiterals(FALSE)

\* -7 / 2 was folded and gave Int(-3).
C9_Witness ==
    /\ FoldedConstPair
    /\ expr = binary("Div", const_(Cv_Int(-7)), const_(Cv_Int(2)))
    /\ folded = Some(Cv_Int(-3))

\* C10: the value try_fold computes for a binary operator on two constants
\* is, after widening, the value the instruction map_int_binary_op selects
\* computes on the widened operands.
C10_FoldMatchesLowering ==
    (/\ FoldedConstPair
     /\ IsDefined(expr.lhs.val)
     /\ IsDefined(expr.rhs.val)
     /\ folded.k = "Some") =>
        LET ir == ibinary(map_int_binary_op(expr.op),
                          Widened(expr.lhs.val), Widened(expr.rhs.val))
        IN  ir # Poison => Widened(folded.v) = ir.v

(***************************************************************************)
(* C11: whenever type_check(e, Some(T)) with T Bool or Int succeeds, the   *)
(* expression it returns has resolved type T, and when it is a folded      *)
(* Constant its value is of kind T.                                        *)
(***************************************************************************)
C11_ExpectedTypeHolds ==
    (cpc = "done" /\ cexpect \in {Some(Tk_Bool), Some(Tk_Int)} /\ checked.k = "Some")
        => /\ checked.v.ty = cexpect
           /\ checked.v.kind = "Const" => get_type(checked.v.val) = cexpect.v

\* C12: analysing a call whose argument count differs from the parameter
\* count of the function it names is an error, never a typed Call node.
C12_ArityMismatchIsError ==
    LET entry == lookup(stack, cnode.ident)
    IN  (/\ cpc = "done"
         /\ cnode.kind = "FuncCall"
         /\ entry # None
         /\ entry.ty.k = "Func"
         /\ Len(cnode.args) # Len(entry.ty.params))
            => checked = Panic

\* C13: analysing a variable reference, a call or an assignment whose
\* identifier no live scope binds fails; no typed node comes out.
C13_UnboundIsError ==
    (/\ cpc = "done"
     /\ cnode.kind \in {"LVal", "FuncCall", "Assign"}
     /\ lookup(stack, cnode.ident) = None)
        => checked = Panic

C13_Witness ==
    /\ cpc = "done"
    /\ cnode = assign("z", const_(Cv_Int(1)))
    /\ lookup(stack, "z") = None
    /\ checked = Panic

\* the returned expression analyses, on its own, to type Int or Bool
ReturnsIntOrBool ==
    /\ cpc = "done"
    /\ cnode.kind = "Return"
    /\ cnode.expr # None
    /\ LET typed == type_check(cnode.expr.v, None, stack)
       IN  typed # Panic /\ typed.v.ty \in {Some(Tk_Int), Some(Tk_Bool)}

\* C16 as stated: in a function declared to return R, Int or Bool,
\* analysing `return e` with e of type Int or Bool succeeds and the return
\* expression has type R.
C16_Original ==
    (ReturnsIntOrBool /\ curr_ret_ty \in {Some(Tk_Int), Some(Tk_Bool)})
        => checked # Panic /\ checked.v.expr.v.ty = curr_ret_ty

\* C16: in a function declared to return Int, analysing `return e` with e
\* of type Int or Bool succeeds and the return expression has type Int; in
\* a function declared to return Bool it panics.
C16_ReturnTypeInt ==
    /\ (ReturnsIntOrBool /\ curr_ret_ty = Some(Tk_Int))
            => checked # Panic /\ checked.v.expr.v.ty = Some(Tk_Int)
    /\ (ReturnsIntOrBool /\ curr_ret_ty = Some(Tk_Bool)) => checked = Panic

C16_Witness ==
    /\ cpc = "done"
    /\ cnode = return(Some(unary("Not", lval("x"))))
    /\ curr_ret_ty = Some(Tk_Int)
    /\ checked # Panic
    /\ checked.v.expr.v.kind = "Coercion"
    /\ checked.v.expr.v.ty = Some(Tk_Int)

(***************************************************************************)
(* Claims about the analysis of a compilation unit                         *)
(***************************************************************************)
\* the function definition whose body the pass is in
InFunc == \E i \in 1..Len(todo) : todo[i].kind = "EndFunc"

CurrDef == todo[CHOOSE i \in 1..Len(todo) : todo[i].kind = "EndFunc"].item

\* the next statement is a call of the function being analysed
CallsOwnName ==
    /\ upc = "check"
    /\ InFunc
    /\ Head(todo).kind = "ExprStmt"
    /\ Head(todo).expr # None
    /\ Head(todo).expr.v.kind = "FuncCall"
    /\ Head(todo).expr.v.ident = CurrDef.ident

\* the name resolves to an entry of the definition's function type
ResolvesTo(item) ==
    LET entry == lookup(stack, item.ident)
    IN  entry # None /\ entry.ty = func_ty_of(item)

RECURSIVE Declares(_, _)
Declares(items, name) ==
    \E i \in 1..Len(items) :
        \/ /\ items[i].kind \in DeclKinds
           /\ \E j \in 1..Len(items[i].defs) : items[i].defs[j].ident = name
        \/ items[i].kind = "Block" /\ Declares(items[i].items, name)

\* a parameter or a declaration in the body reuses the function's name
ShadowsOwnName(item) ==
    \/ \E i \in 1..Len(item.params) : item.params[i].ident = item.ident
    \/ Declares(item.body.items, item.ident)

\* the item analysed last is a function definition and its scope is left
JustLeftFunc ==
    /\ upc = "check"
    /\ ~InFunc
    /\ built[1] # <<>>
    /\ built[1][Len(built[1])].kind = "FuncDef"

\* C14 as stated: in every function definition a call of the function's
\* own name inside the body resolves to the function's type, and once the
\* parameter scope is left the name resolves to it from the enclosing scope.
C14_Original ==
    /\ CallsOwnName => ResolvesTo(CurrDef)
    /\ JustLeftFunc => ResolvesTo(built[1][Len(built[1])])

\* C14: in a function definition where no parameter and no declaration of
\* the body has the function's name, a call of the function's own name
\* inside the body resolves to the function's type; in every function
\* definition, once the parameter scope is left the name resolves to the
\* function from the enclosing scope.
C14_SelfCallResolves ==
    /\ (CallsOwnName /\ ~ShadowsOwnName(CurrDef)) => ResolvesTo(CurrDef)
    /\ JustLeftFunc => ResolvesTo(built[1][Len(built[1])])

C14_Witness ==
    /\ CallsOwnName
    /\ ~ShadowsOwnName(CurrDef)
    /\ Len(stack) = 4
    /\ ResolvesTo(CurrDef)

\* the declaration CheckDecl has just rewritten
LastBuilt == built'[Len(built')][Len(built'[Len(built')])]

\* C15: analysing a ConstDecl either fails, an initializer not folding, or
\* leaves every definition with a Constant for initializer and a symbol
\* entry carrying the same value, which a reference to the name folds to.
C15_ConstDeclFolds ==
    [][(upc = "check" /\ Head(todo).kind = "ConstDecl")
         => \/ /\ upc' = "panic"
               /\ \E i \in 1..Len(Head(todo).defs) :
                    LET typed == type_check(Head(todo).defs[i].init,
                                            Some(Head(todo).ty), stack)
                    IN  typed = Panic \/ try_fold(typed.v, stack).k # "Some"
            \/ /\ upc' = "check"
               /\ Len(LastBuilt.defs) = Len(Head(todo).defs)
               /\ \A i \in 1..Len(LastBuilt.defs) :
                    LET def == LastBuilt.defs[i]
                    IN  /\ def.ident = Head(todo).defs[i].ident
                        /\ def.init.kind = "Const"
                        /\ lookup(stack', def.ident).comptime = Some(def.init.val)
                        /\ try_fold(lval(def.ident), stack') = Some(def.init.val)]_vars

C15_Witness ==
    /\ upc = "check"
    /\ lookup(stack, "k") # None
    /\ lookup(stack, "m") # None
    /\ lookup(stack, "m").comptime = Some(Cv_Int(3))

(***************************************************************************)
(* Claims about the lowered functions                                      *)
(***************************************************************************)
RECURSIVE Flatten(_, _, _)
Flatten(cx, layout, i) ==
    IF i > Len(layout) THEN <<>>
    ELSE cx.blocks[layout[i]] \o Flatten(cx, layout, i + 1)

\* the instructions of function f in program order
FuncInsts(f) == Flatten(ctx, ctx.funcs[f].blocks, 1)

\* the last block of function f
LastBlock(f) == ctx.blocks[ctx.funcs[f].blocks[Len(ctx.funcs[f].blocks)]]

\* the entry block of function f
EntryBlock(f) == ctx.blocks[ctx.funcs[f].blocks[1]]

IsBinary(inst) == inst.op = "ibinary"

IsLoad(inst) == inst.op = "load"

AddOp == map_int_binary_op("Add")

\* the slot the incoming value of parameter p is stored to
ParamSlot(f, p) ==
    LET entry == EntryBlock(f)
        i == CHOOSE j \in 1..Len(entry) : entry[j].op = "store" /\ entry[j].val = p
    IN  entry[i].ptr

\* what holds of the lowered unit whatever the adds of the body are
SumLowered ==
    /\ \A i \in 1..2 :
          /\ analysed[1].defs[i].init.kind = "Const"
          /\ analysed[1].defs[i].init.val = Cv_Int(i)
    /\ Len(ctx.funcs) = 1
    /\ Len(ctx.funcs[1].params) = 1
    /\ Len(ctx.funcs[1].blocks) = 2
    /\ LET entry == EntryBlock(1)
           n == Len(entry)
           p == ctx.funcs[1].params[1]
           adds == SelectSeq(entry, IsBinary)
       IN  /\ Cardinality({i \in 1..n : entry[i].op = "store" /\ entry[i].val = p}) = 1
           /\ Cardinality({i \in 1..n : entry[i].op = "alloca"}) = 2
           /\ ParamSlot(1, p) \in {result(entry[i].id) : i \in {1, 2}}
           /\ Len(SelectSeq(entry, IsLoad)) = 1
           /\ SelectSeq(entry, IsLoad)[1].ptr = ParamSlot(1, p)
           /\ adds # <<>>
           /\ adds[1].lhs = result(SelectSeq(entry, IsLoad)[1].id)
           /\ entry[n - 1].op = "store"
           /\ entry[n - 1].val = result(adds[Len(adds)].id)
           /\ entry[n - 1].ptr = LastBlock(1)[1].ptr
           /\ entry[n - 1].ptr # ParamSlot(1, p)
           /\ entry[n] = Inst_br(entry[n].id, ctx.funcs[1].blocks[2])
           /\ \A i \in 1..Len(adds) : adds[i].bop = AddOp

\* C17 as stated: the unit lowers to one function, one parameter, one slot
\* for x, a body that loads x once and emits a single add of the constant 3.
C17_Original ==
    (unit = UnitF /\ upc = "lowered")
        => /\ SumLowered
           /\ LET adds == SelectSeq(EntryBlock(1), IsBinary)
              IN  /\ Len(adds) = 1
                  /\ adds[1].rhs = Value_const(Cv_Int(3))

\* C17: the unit folds a to 1 and b to 2 at declaration time and lowers f
\* to one function with one parameter and one slot for x, whose body loads
\* x once and emits two adds, of the constant 1 to the loaded x and of the
\* constant 2 to that sum, before the store to the return slot and the
\* branch to the single return block.
C17_SumOfTwoAdds ==
    (unit = UnitF /\ upc = "lowered")
        => /\ SumLowered
           /\ LET adds == SelectSeq(EntryBlock(1), IsBinary)
              IN  /\ Len(adds) = 2
                  /\ adds[1].rhs = Value_const(Cv_Int(1))
                  /\ adds[2].lhs = result(adds[1].id)
                  /\ adds[2].rhs = Value_const(Cv_Int(2))

C17_Witness ==
    /\ unit = UnitF
    /\ upc = "lowered"
    /\ Len(SelectSeq(EntryBlock(1), IsBinary)) = 2

\* the slot the last block of function f loads the returned value from
RetSlot(f) == IF LastBlock(f)[1].op = "load" THEN Some(LastBlock(f)[1].ptr) ELSE None

\* C18: in every lowered function each load from a local variable's slot
\* comes, in instruction order, after a store to the same slot.
C18_LoadAfterStore ==
    upc = "lowered"
        => \A f \in 1..Len(ctx.funcs) :
             LET body == FuncInsts(f)
             IN  \A i \in 1..Len(body) :
                   (/\ body[i].op = "load"
                    /\ body[i].ptr.v = "inst"
                    /\ Some(body[i].ptr) # RetSlot(f))
                       => \E j \in 1..(i - 1) :
                            body[j].op = "store" /\ body[j].ptr = body[i].ptr

\* the instruction has the value among its operands
Uses(inst, val) ==
    CASE inst.op = "store" -> inst.val = val \/ inst.ptr = val
      [] inst.op = "load" -> inst.ptr = val
      [] inst.op = "ibinary" -> inst.lhs = val \/ inst.rhs = val
      [] inst.op = "ret" -> inst.val = Some(val)
      [] OTHER -> FALSE

\* C19: in a lowered function every Int and every Bool parameter has a
\* slot of its own in the entry block, its incoming value is stored to the
\* slot, and no other instruction has the raw parameter for operand.
C19_ParamSlots ==
    upc = "lowered"
        => \A f \in 1..Len(ctx.funcs) : \A k \in 1..Len(ctx.funcs[f].params) :
             LET p == ctx.funcs[f].params[k]
                 entry == EntryBlock(f)
                 body == FuncInsts(f)
                 stores == {j \in 1..Len(entry) : /\ entry[j].op = "store"
                                                   /\ entry[j].val = p
                                                   /\ entry[j].ptr # p}
             IN  p.ty \in {Ty_i32, Ty_i1}
                   => /\ Cardinality(stores) = 1
                      /\ \A j \in stores :
                           \E i \in 1..Len(entry) :
                              /\ entry[i].op = "alloca"
                              /\ entry[j].ptr = result(entry[i].id)
                      /\ Cardinality({i \in 1..Len(body) : Uses(body[i], p)}) = 1

\* the functions whose lowering is over
Finished == {f \in 1..Len(ctx.funcs) : curr_func # Some(f)}

\* what the last block of a lowered function is
SingleExit(f) ==
    LET body == FuncInsts(f)
        last == LastBlock(f)
    IN  /\ Cardinality({i \in 1..Len(body) : body[i].op = "ret"}) = 1
        /\ last[Len(last)].op = "ret"
        /\ IF ctx.funcs[f].ret_ty = Ty_void
           THEN /\ Len(last) = 1
                /\ last[1].val = None
           ELSE /\ Len(last) = 2
                /\ last[1].op = "load"
                /\ last[1].ty = ctx.funcs[f].ret_ty
                /\ \E i \in 1..Len(EntryBlock(f)) :
                      /\ EntryBlock(f)[i].op = "alloca"
                      /\ last[1].ptr = result(EntryBlock(f)[i].id)
                /\ last[2].val = Some(result(last[1].id))

\* what lowering a return statement appends to the current block
ReturnEmitted ==
    LET old == ctx.blocks[curr_block.v]
        new == ctx'.blocks[curr_block.v]
        n == Len(new)
    IN  /\ n > Len(old)
        /\ SubSeq(new, 1, Len(old)) = old
        /\ new[n] = Inst_br(new[n].id, curr_ret_block.v)
        /\ IF Head(todo).expr = None
           THEN n = Len(old) + 1
           ELSE /\ n >= Len(old) + 2
                /\ new[n - 1].op = "store"
                /\ new[n - 1].ptr = curr_ret_slot.v
                /\ \A i \in (Len(old) + 1)..(n - 2) : new[i].op \notin {"store", "br", "ret"}

\* C20: every lowered function holds one return instruction, in its last
\* block, which is [load of the return slot; ret of the loaded value] in a
\* non-void function and [ret] in a void one, and every lowered return
\* statement appends a branch to that block, after a store to the return
\* slot when it returns a value.
C20_SingleReturn ==
    /\ [](upc \in {"lower", "lowered"} => \A f \in Finished : SingleExit(f))
    /\ [](curr_func # None
            => (curr_ret_slot = None <=> ctx.funcs[curr_func.v].ret_ty = Ty_void))
    /\ [][(upc = "lower" /\ Head(todo).kind = "Return" /\ upc' = "lower")
            => ReturnEmitted]_vars

C20_Witness ==
    /\ upc = "lowered"
    /\ Len(ctx.funcs) = 2
    /\ \E f \in 1..2 : ctx.funcs[f].ret_ty = Ty_void
    /\ \E f \in 1..2 : \E i \in 1..Len(EntryBlock(f)) :
          /\ EntryBlock(f)[i].op = "store"
          /\ Some(EntryBlock(f)[i].ptr) = RetSlot(f)

(***************************************************************************)
(* Claims about logical NOT and the operands of a binary expression        *)
(***************************************************************************)
\* C29: folding !n for an Int n gives Bool(n = 0), and folding !b for a
\* Bool b gives Bool(not b), the same under true = 1, false = 0.
C29_NotNegatesTruthiness ==
    /\ (FoldedConstUnary /\ expr.op = "Not" /\ expr.e.val.tag = "Int")
          => folded = Some(Cv_Bool(expr.e.val.i = 0))
    /\ (FoldedConstUnary /\ expr.op = "Not" /\ expr.e.val.tag = "Bool")
          => folded = Some(Cv_Bool(~expr.e.val.b))

\* the Coercion node to Int around an analysed operand
WrappedToInt(e) == [kind |-> "Coercion", e |-> e, ty |-> Some(Tk_Int)]

\* what the Binary arm makes of two analysed operands
BinaryOperands(arm, lhs, rhs) ==
    CASE lhs.ty.v = Tk_Bool /\ rhs.ty.v = Tk_Int ->
            /\ arm # Panic
            /\ arm.v.lhs = WrappedToInt(lhs)
            /\ arm.v.rhs = rhs
      [] lhs.ty.v = Tk_Int /\ rhs.ty.v = Tk_Bool ->
            /\ arm # Panic
            /\ arm.v.lhs = lhs
            /\ arm.v.rhs = WrappedToInt(rhs)
      [] lhs.ty.v = rhs.ty.v ->
            /\ arm # Panic
            /\ arm.v.lhs = lhs
            /\ arm.v.rhs = rhs
      [] OTHER -> arm = Panic

\* C26: analysing a binary expression wraps a Coercion to Int around the
\* Bool operand when the other is Int and leaves the Int operand as it is,
\* inserts no coercion when both operands have the same type, and fails on
\* any other pair of operand types.
C26_BinaryCoercion ==
    (cpc = "done" /\ cnode.kind = "Binary")
        => LET lhs == type_check(cnode.lhs, None, stack)
               rhs == type_check(cnode.rhs, None, stack)
           IN  IF lhs = Panic \/ rhs = Panic
               THEN checked = Panic
               ELSE LET arm == type_check_binary(cnode.op, lhs.v, rhs.v)
                    IN  /\ BinaryOperands(arm, lhs.v, rhs.v)
                        /\ arm = Panic => checked = Panic
                        /\ (checked # Panic /\ checked.v.kind = "Binary")
                              => checked.v = arm.v
                        /\ (checked # Panic /\ checked.v.kind = "Coercion")
                              => checked.v.e = arm.v

C26_Witness ==
    /\ cpc = "done"
    /\ cnode = binary("Add", lval("p"), lval("x"))
    /\ checked # Panic
    /\ checked.v.kind = "Binary"
    /\ checked.v.lhs = WrappedToInt([lval("p") EXCEPT !.ty = Some(Tk_Bool)])
    /\ checked.v.rhs = [lval("x") EXCEPT !.ty = Some(Tk_Int)]

(***************************************************************************)
(* Claims about what folds during the analysis of a unit                   *)
(***************************************************************************)
UnitNames == {"a", "b", "v", "w", "x", "p", "f", "g", "y", "k", "m"}

\* the item binds the name in the scope it is an item of
Binds(item, name) ==
    IF item.kind \in DeclKinds
    THEN \E j \in 1..Len(item.defs) : item.defs[j].ident = name
    ELSE item.kind = "FuncDef" /\ item.ident = name

\* what made the binding of the name in the open scope `level`, going by
\* the items analysed so far: the last item of the scope that binds it, a
\* parameter in the parameter scope, the function being analysed in the
\* scope of the unit
ScopeBinder(name, level) ==
    LET items == built[level]
        hits == {i \in 1..Len(items) : Binds(items[i], name)}
    IN  IF level = 2 /\ InFunc
             /\ \E i \in 1..Len(CurrDef.params) : CurrDef.params[i].ident = name
        THEN "Param"
        ELSE IF level = 1 /\ InFunc /\ CurrDef.ident = name
        THEN "FuncDef"
        ELSE IF hits = {}
        THEN "None"
        ELSE items[CHOOSE i \in hits : \A j \in hits : j <= i].kind

\* what made the innermost live binding of the name
RECURSIVE Binder(_, _)
Binder(name, level) ==
    IF level = 0 THEN "None"
    ELSE IF ScopeBinder(name, level) # "None" THEN ScopeBinder(name, level)
    ELSE Binder(name, level - 1)

\* C27: during analysis a reference to a variable folds exactly when the
\* innermost live binding of its name was made by a const declaration;
\* a reference to a variable of a var declaration or to a parameter does
\* not fold, and a function call does not fold.
C27_FoldsOnlyConsts ==
    upc = "check"
        => /\ Len(built) = Len(stack)
           /\ \A n \in UnitNames :
                /\ lookup(stack, n) = None <=> Binder(n, Len(built)) = "None"
                /\ lookup(stack, n) # None
                     => (try_fold(lval(n), stack).k = "Some"
                            <=> Binder(n, Len(built)) = "ConstDecl")
                /\ try_fold(func_call(n, <<>>), stack) = None

\* a variable initialised with a literal shadows a constant of the unit
C27_Witness ==
    /\ upc = "check"
    /\ Len(stack) = 3
    /\ Binder("a", 1) = "ConstDecl"
    /\ Binder("a", 3) = "VarDecl"
    /\ built[3][1].defs[1].init = Some(IntLit(5))
    /\ try_fold(lval("a"), stack) = None

\* C22: lowering a global declaration of an analysed unit does not fail
\* and makes, for every definition, a global holding a constant.
C22_GlobalsLower ==
    [][(upc = "lower" /\ curr_func = None /\ Head(todo).kind \in DeclKinds)
         => /\ upc' = "lower"
            /\ Len(ctx'.globals) = Len(ctx.globals) + Len(Head(todo).defs)
            /\ \A i \in 1..Len(Head(todo).defs) :
                 LET glob == ctx'.globals[Len(ctx.globals) + i]
                 IN  /\ glob.name.ident = Head(todo).defs[i].ident
                     /\ glob.init.v = "const"]_vars

(***************************************************************************)
(* Claims about the blocks of the lowered functions                        *)
(***************************************************************************)
Terminators == {"br", "ret"}

\* C21: every block of a lowered function ends with a branch or a return;
\* a body that control can leave without a return statement ends with a
\* branch to the return block.
C21_BlocksTerminated ==
    upc = "lowered"
        => \A f \in 1..Len(ctx.funcs) : \A i \in 1..Len(ctx.funcs[f].blocks) :
             LET blk == ctx.blocks[ctx.funcs[f].blocks[i]]
             IN  /\ blk # <<>>
                 /\ blk[Len(blk)].op \in Terminators

\* the instructions a step appended to the current block
Appended ==
    SubSeq(ctx'.blocks[curr_block.v], Len(ctx.blocks[curr_block.v]) + 1,
           Len(ctx'.blocks[curr_block.v]))

\* the pointer is the result of an alloca of the context
IsSlot(cx, ptr) ==
    /\ ptr.v = "inst"
    /\ \E b \in 1..Len(cx.blocks) : \E i \in 1..Len(cx.blocks[b]) :
          cx.blocks[b][i].op = "alloca" /\ cx.blocks[b][i].id = ptr.id

\* C23: lowering an assignment emits the instructions of the right-hand
\* side and then one store, to the stack slot of the target or to a
\* global reference, never to an incoming parameter value.
C23_AssignStoresToSlot ==
    [][(upc = "lower" /\ Head(todo).kind = "Assign" /\ upc' = "lower")
         => LET new == Appended
                n == Len(new)
            IN  /\ n >= 1
                /\ new[n].op = "store"
                /\ IsSlot(ctx', new[n].ptr) \/ new[n].ptr.v = "global_ref"
                /\ \A i \in 1..(n - 1) : new[i].op \in {"load", "ibinary"}]_vars

\* C24: no block holds an instruction after its branch; what follows a
\* return statement in its block emits nothing.
C24_NothingAfterBranch ==
    \A b \in 1..Len(ctx.blocks) : \A i \in 1..(Len(ctx.blocks[b]) - 1) :
        ctx.blocks[b][i].op \notin Terminators

\* the entry blocks of the functions of the context
EntryBlocks == {ctx.funcs[f].blocks[1] : f \in {g \in 1..Len(ctx.funcs) : ctx.funcs[g].blocks # <<>>}}

\* C25: every alloca is in the entry block of a function, before every
\* instruction of the block that is no alloca, and every store or load
\* through a slot has the alloca of the slot before it.
C25_AllocasLeadEntry ==
    upc \in {"lower", "lowered"}
        => \A b \in 1..Len(ctx.blocks) : \A i \in 1..Len(ctx.blocks[b]) :
             LET inst == ctx.blocks[b][i]
             IN  /\ inst.op = "alloca"
                    => /\ b \in EntryBlocks
                       /\ \A j \in 1..(i - 1) : ctx.blocks[b][j].op = "alloca"
                 /\ (inst.op \in {"store", "load"} /\ inst.ptr.v = "inst")
                    => \E e \in EntryBlocks : \E j \in 1..Len(ctx.blocks[e]) :
                          /\ ctx.blocks[e][j].op = "alloca"
                          /\ ctx.blocks[e][j].id = inst.ptr.id
                          /\ (e = b => j < i)

\* a declaration of a nested block was lowered after a store: its alloca,
\* made later, stands before the store
C25_Witness ==
    /\ upc = "lower"
    /\ curr_func # None
    /\ Len(stack) = 4
    /\ lookup(stack, "y") # None
    /\ LET entry == ctx.blocks[curr_block.v]
       IN  \E i, j \in 1..Len(entry) :
              /\ i < j
              /\ entry[i].op = "alloca"
              /\ entry[j].op = "store"
              /\ entry[i].id > entry[j].id

\* the scopes, blocks and functions the pass is inside of
OpenMarks == {i \in 1..Len(todo) : todo[i].kind \in {"LeaveBlock", "EndFunc", "LeaveUnit"}}

\* C28: the scope stack is as deep as the blocks, function and unit the
\* pass is inside of, and empty after the unit; the ambient return type
\* is set exactly while a function is analysed; outside of a function the
\* lowering pass has no current function, block, return slot or return
\* block, and inside a void function it has no return slot.
C28_ScopesNested ==
    /\ upc \in {"check", "lower"} => Len(stack) = Cardinality(OpenMarks)
    /\ upc \in {"checked", "lowered"} => stack = <<>>
    /\ upc = "check" => (curr_ret_ty # None <=> InFunc)
    /\ upc \in {"checked", "lower", "lowered"} => curr_ret_ty = None
    /\ (upc \in {"lower", "lowered"} /\ ~InFunc)
          => /\ curr_func = None
             /\ curr_func_name = None
             /\ curr_block = None
             /\ curr_ret_slot = None
             /\ curr_ret_block = None
    /\ (upc = "lower" /\ InFunc)
          => /\ curr_func # None
             /\ curr_block # None
             /\ curr_ret_block # None
             /\ curr_ret_slot = None <=> is_void(CurrDef.ret_ty)

\* a void function is being lowered after a function that has a return slot
C28_Witness ==
    /\ upc = "lower"
    /\ InFunc
    /\ is_void(CurrDef.ret_ty)
    /\ curr_func = Some(2)
    /\ ctx.funcs[1].ret_ty = Ty_i32
    /\ curr_ret_slot = None
    /\ Len(stack) = 3

\* the definition's initializer is a sum whose left operand is a name
InitMentions(def) ==
    /\ def.init # None
    /\ def.init.v.kind = "Binary"
    /\ def.init.v.lhs.kind = "LVal"

\* C30: both passes resolve the name in the initializer of a local
\* declaration to the declaration visible before it: analysis gives the
\* reference the type of that binding, and lowering loads from the slot
\* of that binding.
C30_SameResolution ==
    /\ [][(/\ upc = "check"
           /\ Head(todo).kind = "VarDecl"
           /\ InitMentions(Head(todo).defs[1])
           /\ upc' = "check")
            => LastBuilt.defs[1].init.v.lhs.ty
                 = Some(lookup(stack, Head(todo).defs[1].init.v.lhs.ident).ty)]_vars
    /\ [][(/\ upc = "lower"
           /\ curr_func # None
           /\ Head(todo).kind = "VarDecl"
           /\ InitMentions(Head(todo).defs[1])
           /\ upc' = "lower")
            => LET outer == lookup(stack, Head(todo).defs[1].init.v.lhs.ident)
                   loads == SelectSeq(Appended, IsLoad)
               IN  /\ Len(loads) = 1
                   /\ loads[1].ptr = outer.ir_value.v.val]_vars

====
